---- MODULE Spec2Model ----
(***************************************************************************)
(* Value-codec core of edgedb-protocol: the scalar wire codecs             *)
(* (serialization/codecs/scalars.rs), the composite framing primitives     *)
(* (serialization/encode_composite.rs) and the dynamic codecs              *)
(* (value_codec.rs).                                                       *)
(*                                                                         *)
(* Representation of machine integers.  TLC's integers are 32 bits wide,   *)
(* so a 64-bit integer is held as four 16-bit limbs <<h, a, b, c>>, most   *)
(* significant first, standing for h*2^48 + a*2^32 + b*2^16 + c; the top   *)
(* limb of an i64 is signed (-32768..32767), that of a u64 unsigned.  A    *)
(* u32 read from the wire is two unsigned limbs <<hi, lo>>.  i16 and i32   *)
(* are plain integers.  A byte is 0..255, a buffer a sequence of bytes.    *)
(***************************************************************************)
EXTENDS Integers, Sequences, FiniteSets, TLC

VARIABLES
    output,   \* Output: the byte buffer an encode call appends to
    pc,       \* position of the caller
    kind,     \* the scalar type of the call in flight
    val,      \* the value handed to encode
    start,    \* output.len() when the call in flight began
    input,    \* Input handed to decode
    result,   \* what the last call returned
    stack,    \* the EncodeCompositeInner of every container being written, innermost last
    last,     \* the write or the encoder that finished last
    codec,        \* the dynamic codec build_codec returned
    catalog,      \* the descriptors handed to the builder or to check_descriptor
    asked         \* the position handed to the builder or to check_descriptor

vars == <<output, pc, kind, val, start, input, result, stack, last, codec,
          catalog, asked>>

(***************************************************************************)
(* Result<T, E>, and a panic (assert!, unwrap, slice index out of range).  *)
(***************************************************************************)
Ok(v) == [tag |-> "Ok", val |-> v]
Err(e) == [tag |-> "Err", err |-> e]
Panic == [tag |-> "Panic"]
IsOk(r) == r.tag = "Ok"
IsErr(r, e) == r.tag = "Err" /\ r.err = e

\* Option<&[u8]> of Input
Some(b) == [some |-> TRUE, bytes |-> b]
None == [some |-> FALSE, bytes |-> <<>>]

Byte == 0..255

(***************************************************************************)
(* bytes::Buf / bytes::BufMut: big-endian reads and writes.                *)
(***************************************************************************)
Wrap16(v) == IF v < 0 THEN v + 65536 ELSE v
Signed16(u) == IF u >= 32768 THEN u - 65536 ELSE u

put_u8(v) == <<v>>
put_u16(v) == <<v \div 256, v % 256>>
put_i16(v) == put_u16(Wrap16(v))
\* a u32 below 2^31 or an i32: \div rounds down and % is non-negative
put_i32(v) == <<(v \div 16777216) % 256, (v \div 65536) % 256, (v \div 256) % 256, v % 256>>
put_u32(v) == put_i32(v)
put_i64(v) == put_i16(v[1]) \o put_u16(v[2]) \o put_u16(v[3]) \o put_u16(v[4])

get_u8(b) == b[1]
get_u16(b) == b[1] * 256 + b[2]
get_i16(b) == Signed16(get_u16(b))
get_i32(b) == (IF b[1] >= 128 THEN b[1] - 256 ELSE b[1]) * 16777216
              + b[2] * 65536 + b[3] * 256 + b[4]
get_u32(b) == <<get_u16(SubSeq(b, 1, 2)), get_u16(SubSeq(b, 3, 4))>>
get_i64(b) == <<get_i16(SubSeq(b, 1, 2)), get_u16(SubSeq(b, 3, 4)),
                get_u16(SubSeq(b, 5, 6)), get_u16(SubSeq(b, 7, 8))>>

\* the rest of a Buf after n bytes were read
Advance(b, n) == SubSeq(b, n + 1, Len(b))

\* i64 -> u64 ("as u64") and back: the same 64 bits
AsU64(v) == <<Wrap16(v[1]), v[2], v[3], v[4]>>
AsI64(u) == <<Signed16(u[1]), u[2], u[3], u[4]>>
\* u64 comparison, limb by limb
LtU64(x, y) ==
    \E i \in 1..4 : x[i] < y[i] /\ \A j \in 1..(i - 1) : x[j] = y[j]
\* i64 > 0
PositiveI64(v) == v[1] > 0 \/ (v[1] = 0 /\ (v[2] > 0 \/ v[3] > 0 \/ v[4] > 0))

I64_MIN == <<-32768, 0, 0, 0>>
I64_MAX == <<32767, 65535, 65535, 65535>>
I64(n) == <<IF n < 0 THEN -1 ELSE 0, IF n < 0 THEN 65535 ELSE 0,
            (n \div 65536) % 65536, n % 65536>>


\* wrapping negation of the 64 bits of a u64 (what "-x" is without overflow checks)
WrappingNeg(u) ==
    LET c4 == IF u[4] = 0 THEN 1 ELSE 0
        c3 == IF c4 = 1 /\ u[3] = 0 THEN 1 ELSE 0
        c2 == IF c3 = 1 /\ u[2] = 0 THEN 1 ELSE 0
    IN  <<(65535 - u[1] + c2) % 65536, (65535 - u[2] + c3) % 65536,
          (65535 - u[3] + c4) % 65536, (65536 - u[4]) % 65536>>

\* f32 / f64 are held as their IEEE-754 bits (to_bits): <<hi, lo>> and four limbs
put_f32(v) == put_u16(v[1]) \o put_u16(v[2])
get_f32(b) == get_u32(b)
put_f64(v) == put_u16(v[1]) \o put_u16(v[2]) \o put_u16(v[3]) \o put_u16(v[4])
get_f64(b) == <<get_u16(SubSeq(b, 1, 2)), get_u16(SubSeq(b, 3, 4)),
                get_u16(SubSeq(b, 5, 6)), get_u16(SubSeq(b, 7, 8))>>

(***************************************************************************)
(* str: a String is a sequence of Unicode scalar values; as_bytes is its   *)
(* UTF-8 encoding and str::from_utf8 validates and reads it back.          *)
(***************************************************************************)
Utf8Char(c) ==
    IF c < 128 THEN <<c>>
    ELSE IF c < 2048 THEN <<192 + (c \div 64), 128 + (c % 64)>>
    ELSE IF c < 65536 THEN <<224 + (c \div 4096), 128 + ((c \div 64) % 64), 128 + (c % 64)>>
    ELSE <<240 + (c \div 262144), 128 + ((c \div 4096) % 64),
           128 + ((c \div 64) % 64), 128 + (c % 64)>>

RECURSIVE as_bytes(_)
as_bytes(s) == IF s = <<>> THEN <<>> ELSE Utf8Char(Head(s)) \o as_bytes(Tail(s))

IsCont(b, i) == i <= Len(b) /\ b[i] >= 128 /\ b[i] <= 191

RECURSIVE from_utf8(_)
from_utf8(b) ==
    IF b = <<>> THEN Ok(<<>>)
    ELSE
      LET b1 == b[1]
          n == IF b1 < 128 THEN 1
               ELSE IF b1 >= 194 /\ b1 <= 223 THEN 2
               ELSE IF b1 >= 224 /\ b1 <= 239 THEN 3
               ELSE IF b1 >= 240 /\ b1 <= 244 THEN 4
               ELSE 0
          c == IF n = 1 THEN b1
               ELSE IF n = 2 THEN (b1 - 192) * 64 + (b[2] - 128)
               ELSE IF n = 3 THEN (b1 - 224) * 4096 + (b[2] - 128) * 64 + (b[3] - 128)
               ELSE (b1 - 240) * 262144 + (b[2] - 128) * 4096
                    + (b[3] - 128) * 64 + (b[4] - 128)
      IN  IF n = 0 \/ ~(\A i \in 2..n : IsCont(b, i)) THEN Err("InvalidUtf8")
          ELSE IF (n = 3 /\ c < 2048) \/ (n = 4 /\ c < 65536) \/ c > 1114111
                  \/ (c >= 55296 /\ c <= 57343) THEN Err("InvalidUtf8")
          ELSE LET rest == from_utf8(Advance(b, n))
               IN  IF IsOk(rest) THEN Ok(<<c>> \o rest.val) ELSE rest

(***************************************************************************)
(* serialization.rs: Input                                                 *)
(***************************************************************************)
Input_bytes(inp) ==
    IF inp.some THEN Ok(inp.bytes) ELSE Err("MissingRequiredElement")

(***************************************************************************)
(* model/time.rs                                                           *)
(***************************************************************************)
\* 86_400 * 1_000_000 as a u64
MICROS_PER_DAY == <<0, 20, 7639, 24576>>
LocalDate_MIN_days == -14712 * 365

Duration_from_micros(micros) == [micros |-> micros]
Datetime_from_micros(micros) == [micros |-> micros]
LocalDatetime_from_micros(micros) == [micros |-> micros]
to_micros(v) == v.micros
to_days(v) == v.days

\* assert!(days >= Self::MIN.days)
LocalDate_from_days(days) ==
    IF days >= LocalDate_MIN_days THEN Ok([days |-> days]) ELSE Panic

LocalTime_try_from_micros(micros) ==
    IF LtU64(micros, MICROS_PER_DAY) THEN Ok([micros |-> micros])
    ELSE Err("OutOfRangeError")

\* A SystemTime is held as its distance from the postgres epoch in microseconds.
\* "-self.micros" of i64::MIN panics when the build checks overflow and wraps
\* when it does not.
Datetime_to_system_time(dt, overflow_checks) ==
    IF PositiveI64(dt.micros)
    THEN Ok([before |-> FALSE, micros |-> AsU64(dt.micros)])
    ELSE IF dt.micros = I64_MIN /\ overflow_checks THEN Panic
    ELSE Ok([before |-> TRUE, micros |-> WrappingNeg(AsU64(dt.micros))])

(***************************************************************************)
(* What an encode call returns, with the buffer it leaves behind.          *)
(***************************************************************************)
EncOk(buf) == [tag |-> "Ok", buf |-> buf]
EncErr(e, buf) == [tag |-> "Err", err |-> e, buf |-> buf]
EncPanic(buf) == [tag |-> "Panic", buf |-> buf]

(***************************************************************************)
(* serialization/codecs/scalars.rs: impl Codec<T> for ScalarCodec          *)
(***************************************************************************)
ensure_exact_size_at_least(buf, expected_size) ==
    IF Len(buf) < expected_size THEN Err("Underflow") ELSE Ok(<<>>)
ensure_exact_size(buf, expected_size) ==
    IF Len(buf) # expected_size
    THEN IF Len(buf) < expected_size THEN Err("Underflow") ELSE Err("ExtraData")
    ELSE Ok(<<>>)

bytes_sized(inp, expected_size) ==
    LET bytes == Input_bytes(inp)
    IN  IF ~IsOk(bytes) THEN bytes
        ELSE LET sized == ensure_exact_size(bytes.val, expected_size)
             IN  IF ~IsOk(sized) THEN sized ELSE bytes

\* &[u8] and Vec<u8>
Bytes_decode(inp) == Input_bytes(inp)
Bytes_encode(buf, v) == EncOk(buf \o v)

\* &str and String
Str_decode(inp) ==
    LET bytes == Bytes_decode(inp)
    IN  IF ~IsOk(bytes) THEN bytes ELSE from_utf8(bytes.val)
Str_encode(buf, v) == Bytes_encode(buf, as_bytes(v))

Json_new_unchecked(s) == [json |-> s]
Json_decode(inp) ==
    LET buf == Input_bytes(inp)
    IN  IF ~IsOk(buf) THEN buf
        ELSE IF ~(Len(buf.val) >= 1) THEN Err("Underflow")
        ELSE IF ~(get_u8(buf.val) = 1) THEN Err("InvalidJsonFormat")
        ELSE LET s == from_utf8(Advance(buf.val, 1))
             IN  IF ~IsOk(s) THEN s ELSE Ok(Json_new_unchecked(s.val))
Json_encode(buf, v) == Bytes_encode(buf, as_bytes(v.json))

\* Uuid::from_slice(buf).unwrap()
Uuid_decode(inp) ==
    LET buf == bytes_sized(inp, 16)
    IN  IF ~IsOk(buf) THEN buf
        ELSE IF Len(buf.val) = 16 THEN Ok(buf.val) ELSE Panic
Uuid_encode(buf, v) == EncOk(buf \o v)

\* bool decode in the manner of C: every non-zero byte is true
Bool_decode_nonzero(inp) ==
    LET buf == bytes_sized(inp, 1)
    IN  IF ~IsOk(buf) THEN buf
        ELSE IF buf.val[1] = 0 THEN Ok(FALSE) ELSE Ok(TRUE)

Bool_decode(inp) ==
    LET buf == bytes_sized(inp, 1)
    IN  IF ~IsOk(buf) THEN buf
        ELSE IF buf.val[1] = 0 THEN Ok(FALSE)
        ELSE IF buf.val[1] = 1 THEN Ok(TRUE)
        ELSE Err("InvalidBool")
Bool_encode(buf, v) == EncOk(buf \o put_u8(IF v THEN 1 ELSE 0))

Int16_decode(inp) ==
    LET buf == bytes_sized(inp, 2)
    IN  IF ~IsOk(buf) THEN buf ELSE Ok(get_i16(buf.val))
Int16_encode(buf, v) == EncOk(buf \o put_i16(v))

Int32_decode(inp) ==
    LET buf == bytes_sized(inp, 4)
    IN  IF ~IsOk(buf) THEN buf ELSE Ok(get_i32(buf.val))
Int32_encode(buf, v) == EncOk(buf \o put_i32(v))

Int64_decode_unsigned(inp) ==
    LET buf == bytes_sized(inp, 8)
    IN  IF ~IsOk(buf) THEN buf ELSE Ok(AsU64(get_i64(buf.val)))
Int64_decode(inp) ==
    LET buf == bytes_sized(inp, 8)
    IN  IF ~IsOk(buf) THEN buf ELSE Ok(get_i64(buf.val))
Int64_encode(buf, v) == EncOk(buf \o put_i64(v))

Float32_decode(inp) ==
    LET buf == bytes_sized(inp, 4)
    IN  IF ~IsOk(buf) THEN buf ELSE Ok(get_f32(buf.val))
Float32_encode(buf, v) == EncOk(buf \o put_f32(v))

Float64_decode(inp) ==
    LET buf == bytes_sized(inp, 8)
    IN  IF ~IsOk(buf) THEN buf ELSE Ok(get_f64(buf.val))
Float64_encode(buf, v) == EncOk(buf \o put_f64(v))

\* the ndigits u16 digits that follow the 8-byte header
RECURSIVE get_digits(_)
get_digits(b) ==
    IF Len(b) < 2 THEN <<>> ELSE <<get_u16(b)>> \o get_digits(Advance(b, 2))
RECURSIVE put_digits(_)
put_digits(d) == IF d = <<>> THEN <<>> ELSE put_u16(Head(d)) \o put_digits(Tail(d))

Decimal_decode(inp) ==
    LET buf == Input_bytes(inp)
    IN  IF ~IsOk(buf) THEN buf
        ELSE IF ~(Len(buf.val) >= 8) THEN Err("Underflow")
        ELSE
          LET b == buf.val
              ndigits == get_u16(b)
              weight == get_i16(Advance(b, 2))
              sign == get_u16(Advance(b, 4))
              decimal_digits == get_u16(Advance(b, 6))
              rest == Advance(b, 8)
              sized == ensure_exact_size(rest, ndigits * 2)
          IN  IF sign # 0 /\ sign # 16384 THEN Err("BadSign")
              ELSE IF ~IsOk(sized) THEN sized
              ELSE Ok([negative |-> sign = 16384, weight |-> weight,
                       decimal_digits |-> decimal_digits,
                       digits |-> get_digits(rest)])
Decimal_encode(buf, v) ==
    IF Len(v.digits) > 65535 THEN EncErr("BigIntTooLong", buf)
    ELSE EncOk(buf \o put_u16(Len(v.digits)) \o put_i16(v.weight)
               \o put_u16(IF v.negative THEN 16384 ELSE 0)
               \o put_u16(v.decimal_digits) \o put_digits(v.digits))

\* bigint decode without the check of the scale field
BigInt_decode_any_scale(inp) ==
    LET buf == Input_bytes(inp)
    IN  IF ~IsOk(buf) THEN buf
        ELSE IF ~(Len(buf.val) >= 8) THEN Err("Underflow")
        ELSE
          LET b == buf.val
              sign == get_u16(Advance(b, 4))
              sized == ensure_exact_size(Advance(b, 8), get_u16(b) * 2)
          IN  IF sign # 0 /\ sign # 16384 THEN Err("BadSign")
              ELSE IF ~IsOk(sized) THEN sized
              ELSE Ok([negative |-> sign = 16384, weight |-> get_i16(Advance(b, 2)),
                       digits |-> get_digits(Advance(b, 8))])

BigInt_decode(inp) ==
    LET buf == Input_bytes(inp)
    IN  IF ~IsOk(buf) THEN buf
        ELSE IF ~(Len(buf.val) >= 8) THEN Err("Underflow")
        ELSE
          LET b == buf.val
              ndigits == get_u16(b)
              weight == get_i16(Advance(b, 2))
              sign == get_u16(Advance(b, 4))
              decimal_digits == get_u16(Advance(b, 6))
              rest == Advance(b, 8)
              sized == ensure_exact_size(rest, ndigits * 2)
          IN  IF sign # 0 /\ sign # 16384 THEN Err("BadSign")
              ELSE IF ~(decimal_digits = 0) THEN Err("NonZeroReservedBytes")
              ELSE IF ~IsOk(sized) THEN sized
              ELSE Ok([negative |-> sign = 16384, weight |-> weight,
                       digits |-> get_digits(rest)])
BigInt_encode(buf, v) ==
    IF Len(v.digits) > 65535 THEN EncErr("BigIntTooLong", buf)
    ELSE EncOk(buf \o put_u16(Len(v.digits)) \o put_i16(v.weight)
               \o put_u16(IF v.negative THEN 16384 ELSE 0)
               \o put_u16(0) \o put_digits(v.digits))

\* duration decode that looks at months only
Duration_decode_months_only(inp) ==
    LET buf == bytes_sized(inp, 16)
    IN  IF ~IsOk(buf) THEN buf
        ELSE IF get_u32(Advance(buf.val, 12)) # <<0, 0>> THEN Err("NonZeroReservedBytes")
        ELSE Ok(Duration_from_micros(get_i64(buf.val)))

Duration_decode(inp) ==
    LET buf == bytes_sized(inp, 16)
    IN  IF ~IsOk(buf) THEN buf
        ELSE
          LET micros == get_i64(buf.val)
              days == get_u32(Advance(buf.val, 8))
              months == get_u32(Advance(buf.val, 12))
          IN  IF ~(months = <<0, 0>> /\ days = <<0, 0>>)
              THEN Err("NonZeroReservedBytes")
              ELSE Ok(Duration_from_micros(micros))
Duration_encode(buf, v) ==
    EncOk(buf \o put_i64(to_micros(v)) \o put_u32(0) \o put_u32(0))

Datetime_decode(inp) ==
    LET micros == Int64_decode(inp)
    IN  IF ~IsOk(micros) THEN micros ELSE Ok(Datetime_from_micros(micros.val))
Datetime_encode(buf, v) == Int64_encode(buf, to_micros(v))

SystemTime_decode(inp, overflow_checks) ==
    LET datetime == Datetime_decode(inp)
    IN  IF ~IsOk(datetime) THEN datetime
        ELSE Datetime_to_system_time(datetime.val, overflow_checks)

LocalDatetime_decode(inp) ==
    LET micros == Int64_decode(inp)
    IN  IF ~IsOk(micros) THEN micros ELSE Ok(LocalDatetime_from_micros(micros.val))
LocalDatetime_encode(buf, v) == Int64_encode(buf, to_micros(v))

LocalDate_decode(inp) ==
    LET days == Int32_decode(inp)
    IN  IF ~IsOk(days) THEN days ELSE LocalDate_from_days(days.val)
LocalDate_encode(buf, v) == Int32_encode(buf, to_days(v))

\* local-time decode that compares the signed value
LocalTime_decode_signed(inp) ==
    LET micros == Int64_decode(inp)
    IN  IF ~IsOk(micros) THEN micros
        ELSE IF micros.val[1] < 0 \/ LtU64(AsU64(micros.val), MICROS_PER_DAY)
        THEN Ok([micros |-> AsU64(micros.val)])
        ELSE Err("InvalidDate")

LocalTime_decode(inp) ==
    LET micros == Int64_decode(inp)
    IN  IF ~IsOk(micros) THEN micros
        ELSE LET t == LocalTime_try_from_micros(AsU64(micros.val))
             IN  IF IsOk(t) THEN t ELSE Err("InvalidDate")
LocalTime_encode(buf, v) == Int64_encode(buf, AsI64(to_micros(v)))

(***************************************************************************)
(* The static path: ScalarCodec::default().decode / encode at a type T.    *)
(* T is named after the Value variant that holds it; "SystemTime" is the   *)
(* std type, which has no variant.  overflow_checks is the build's         *)
(* overflow-checks setting, which only SystemTime's conversion reads.      *)
(***************************************************************************)
ScalarTypes ==
    {"Uuid", "Str", "Bytes", "Int16", "Int32", "Int64", "Float32", "Float64",
     "BigInt", "Decimal", "Bool", "Datetime", "LocalDatetime", "LocalDate",
     "LocalTime", "Duration", "Json"}

ScalarCodec_decode(T, inp, overflow_checks) ==
    CASE T = "Uuid" -> Uuid_decode(inp)
      [] T = "Str" -> Str_decode(inp)
      [] T = "Bytes" -> Bytes_decode(inp)
      [] T = "Int16" -> Int16_decode(inp)
      [] T = "Int32" -> Int32_decode(inp)
      [] T = "Int64" -> Int64_decode(inp)
      [] T = "Float32" -> Float32_decode(inp)
      [] T = "Float64" -> Float64_decode(inp)
      [] T = "BigInt" -> BigInt_decode(inp)
      [] T = "Decimal" -> Decimal_decode(inp)
      [] T = "Bool" -> Bool_decode(inp)
      [] T = "Datetime" -> Datetime_decode(inp)
      [] T = "SystemTime" -> SystemTime_decode(inp, overflow_checks)
      [] T = "LocalDatetime" -> LocalDatetime_decode(inp)
      [] T = "LocalDate" -> LocalDate_decode(inp)
      [] T = "LocalTime" -> LocalTime_decode(inp)
      [] T = "Duration" -> Duration_decode(inp)
      [] T = "Json" -> Json_decode(inp)

ScalarCodec_encode(T, buf, v) ==
    CASE T = "Uuid" -> Uuid_encode(buf, v)
      [] T = "Str" -> Str_encode(buf, v)
      [] T = "Bytes" -> Bytes_encode(buf, v)
      [] T = "Int16" -> Int16_encode(buf, v)
      [] T = "Int32" -> Int32_encode(buf, v)
      [] T = "Int64" -> Int64_encode(buf, v)
      [] T = "Float32" -> Float32_encode(buf, v)
      [] T = "Float64" -> Float64_encode(buf, v)
      [] T = "BigInt" -> BigInt_encode(buf, v)
      [] T = "Decimal" -> Decimal_encode(buf, v)
      [] T = "Bool" -> Bool_encode(buf, v)
      [] T = "Datetime" -> Datetime_encode(buf, v)
      [] T = "LocalDatetime" -> LocalDatetime_encode(buf, v)
      [] T = "LocalDate" -> LocalDate_encode(buf, v)
      [] T = "LocalTime" -> LocalTime_encode(buf, v)
      [] T = "Duration" -> Duration_encode(buf, v)
      [] T = "Json" -> Json_encode(buf, v)

(***************************************************************************)
(* Bounds and the values and byte spans the calls are tried on.            *)
(***************************************************************************)
MaxSpan == 17     \* longest byte span handed to decode (the widest scalar is 16)
MaxDigits == 2    \* most digits of a Decimal / BigInt value

SampleBytes == {0, 1, 64, 128, 255}
Fill(n, lead, fill, tail) ==
    [i \in 1..n |-> IF i = 1 THEN lead ELSE IF i = n THEN tail ELSE fill]

I16s == {-32768, -1, 0, 1, 258, 32767}
I32s == {-2147483647 - 1, -1, 0, 1, 16909060, 2147483647}
I64s == {I64_MIN, I64(-1), I64(0), I64(1), I64(5), <<258, 772, 1286, 1800>>, I64_MAX}
Strs == {<<>>, <<97>>, <<0>>, <<123, 125>>, <<233>>, <<8364>>, <<128512>>,
         <<55295>>, <<57344>>, <<1114111>>, <<97, 8364, 128512>>}
ByteStrs == {<<>>, <<0>>, <<255>>, <<1, 2, 3>>, <<255, 254>>}
Digits == UNION {[1..n -> {0, 9999}] : n \in 0..MaxDigits}

\* LocalDate values come from from_days, LocalTime values from try_from_micros
Values(T) ==
    CASE T = "Uuid" -> {[i \in 1..16 |-> 0], [i \in 1..16 |-> i], [i \in 1..16 |-> 255]}
      [] T = "Str" -> Strs
      [] T = "Bytes" -> ByteStrs
      [] T = "Int16" -> I16s
      [] T = "Int32" -> I32s
      [] T = "Int64" -> I64s
      [] T = "Float32" -> {<<0, 0>>, <<16256, 0>>, <<32704, 0>>, <<65535, 65535>>}
      [] T = "Float64" -> {<<0, 0, 0, 0>>, <<16368, 0, 0, 0>>, <<32760, 0, 0, 1>>}
      [] T = "BigInt" -> [negative : BOOLEAN, weight : {-32768, 0, 7}, digits : Digits]
      [] T = "Decimal" -> [negative : BOOLEAN, weight : {-32768, 0, 7},
                           decimal_digits : {0, 65535}, digits : Digits]
      [] T = "Bool" -> BOOLEAN
      [] T = "Datetime" -> {Datetime_from_micros(m) : m \in I64s}
      [] T = "LocalDatetime" -> {LocalDatetime_from_micros(m) : m \in I64s}
      [] T = "LocalDate" ->
            {LocalDate_from_days(d).val :
                d \in {x \in I32s \cup {LocalDate_MIN_days} : x >= LocalDate_MIN_days}}
      [] T = "LocalTime" ->
            {LocalTime_try_from_micros(m).val :
                m \in {<<0, 0, 0, 0>>, <<0, 0, 0, 1>>, <<0, 20, 7639, 24575>>}}
      [] T = "Duration" -> {Duration_from_micros(m) : m \in I64s}
      [] T = "Json" -> {Json_new_unchecked(s) : s \in {<<>>, <<123, 125>>, <<34, 233, 34>>}}

\* byte spans: every length up to MaxSpan over the sample bytes, every single
\* byte, and the spans around LocalDate::MIN and MICROS_PER_DAY
\* durations of 5 microseconds with days and months 0 or 1
DurationSpans ==
    {put_i64(I64(5)) \o put_u32(days) \o put_u32(months) : days \in {0, 1}, months \in {0, 1}}

\* numeric headers (ndigits, weight 1, sign, scale) followed by 0 to
\* 2 * MaxDigits + 1 bytes
NumericSpans ==
    {put_u16(ndigits) \o put_i16(1) \o put_u16(sign) \o put_u16(scale) \o Fill(n, 0, 0, 7) :
        ndigits \in 0..MaxDigits, sign \in {0, 16384, 1, 32768}, scale \in {0, 1},
        n \in 0..(2 * MaxDigits + 1)}

Spans ==
    {Fill(n, l, f, t) : n \in 0..MaxSpan, l \in SampleBytes, f \in {0, 255}, t \in SampleBytes}
    \cup {<<b>> : b \in Byte}
    \cup {put_i32(LocalDate_MIN_days), put_i32(LocalDate_MIN_days - 1)}
    \cup {put_i64(AsI64(MICROS_PER_DAY)), put_i64(<<0, 20, 7639, 24575>>)}
    \cup DurationSpans
    \cup NumericSpans
Inputs == {None} \cup {Some(b) : b \in Spans}

Prefixes == {<<>>, <<170, 85>>}

\* the bytes the call in flight appended
Appended == SubSeq(output, start + 1, Len(output))

(***************************************************************************)
(* The caller of the static path: encode a value, decode what was          *)
(* appended; or decode a byte span received from the server.               *)
(***************************************************************************)
NoFrames == <<>>
NoLast == [kind |-> "none"]

Init ==
    /\ output \in Prefixes
    /\ pc = "idle"
    /\ kind = "none"
    /\ val = <<>>
    /\ start = 0
    /\ input = None
    /\ result = Ok(<<>>)
    /\ stack = NoFrames
    /\ last = NoLast
    /\ codec = [kind |-> "none"]
    /\ catalog = <<>>
    /\ asked = [some |-> FALSE]

Encode ==
    /\ pc = "idle"
    /\ \E T \in ScalarTypes : \E v \in Values(T) :
         LET r == ScalarCodec_encode(T, output, v)
         IN  /\ kind' = T
             /\ val' = v
             /\ start' = Len(output)
             /\ output' = r.buf
             /\ result' = [tag |-> r.tag]
    /\ pc' = "encoded"
    /\ UNCHANGED <<input, stack, last, codec, catalog, asked>>

Decode ==
    /\ pc = "encoded"
    /\ result.tag = "Ok"
    /\ input' = Some(Appended)
    /\ \E oc \in BOOLEAN : result' = ScalarCodec_decode(kind, input', oc)
    /\ pc' = "decoded"
    /\ UNCHANGED <<output, kind, val, start, stack, last, codec, catalog, asked>>

DecodeSpan ==
    /\ pc = "idle"
    /\ \E T \in ScalarTypes \cup {"SystemTime"} : \E inp \in Inputs : \E oc \in BOOLEAN :
         /\ kind' = T
         /\ input' = inp
         /\ result' = ScalarCodec_decode(T, inp, oc)
    /\ pc' = "span"
    /\ UNCHANGED <<output, val, start, stack, last, codec, catalog, asked>>

Reset ==
    /\ pc \in {"decoded", "span"}
    /\ output' \in Prefixes
    /\ pc' = "idle"
    /\ kind' = "none"
    /\ val' = <<>>
    /\ start' = 0
    /\ input' = None
    /\ result' = Ok(<<>>)
    /\ UNCHANGED <<stack, last, codec, catalog, asked>>

Next == Encode \/ Decode \/ DecodeSpan \/ Reset

Spec == Init /\ [][Next]_vars

(***************************************************************************)
(* serialization/encode_composite.rs, mod inner: EncodeCompositeInner is   *)
(* [position, count] beside the buffer it borrows.  No method assigns      *)
(* count after the constructor.  A buffer length in the model is far below *)
(* 2^32, so u32::try_from(len) never fails.                                *)
(***************************************************************************)
\* buf[at..at + 4] exists
InRange(buf, at) == at + 4 <= Len(buf)
\* buf[at..at + 4].copy_from_slice(b)
Overwrite(buf, at, b) ==
    [i \in 1..Len(buf) |-> IF i > at /\ i <= at + Len(b) THEN b[i - at] ELSE buf[i]]

new_tuple_like(buf) ==
    [inner |-> [position |-> Len(buf), count |-> 0], buf |-> buf \o put_u32(0)]

new_array_like(buf) ==
    [inner |-> [position |-> Len(buf), count |-> 0], buf |-> buf]

filled_array(inner, buf) ==
    IF inner.count = 0
    THEN buf \o put_u32(1) \o put_u32(0) \o put_u32(0) \o put_u32(0) \o put_u32(1)
    ELSE buf

finish_tuple_like(inner, buf) ==
    IF InRange(buf, inner.position)
    THEN EncOk(Overwrite(buf, inner.position, put_u32(inner.count)))
    ELSE EncPanic(buf)

finish_array_like_short(inner, buf) ==
    EncOk(buf \o put_u32(0) \o put_u32(0))
finish_array_like(inner, buf) ==
    IF inner.count = 0
    THEN EncOk(buf \o put_u32(0) \o put_u32(0) \o put_u32(0))
    ELSE IF InRange(buf, inner.position + 12)
    THEN EncOk(Overwrite(buf, inner.position + 12, put_u32(inner.count)))
    ELSE EncPanic(buf)

write_null(buf) == buf \o put_u32(0) \o put_i32(-1)

\* write_array_like_element up to the call of f: the placeholder; pos is the
\* length of the buffer this returns
element_begin(buf) == buf \o put_u32(0)

\* write_array_like_element from the return of f, which returned r
element_end(pos, r) ==
    IF r.tag # "Ok" THEN r
    ELSE LET len == Len(r.buf) - pos
         IN  IF InRange(r.buf, pos)
             THEN EncOk(Overwrite(r.buf, pos, put_u32(len)))
             ELSE EncPanic(r.buf)

write_array_like_element(buf, f(_)) ==
    LET b == element_begin(buf)
    IN  element_end(Len(b), f(b))

\* write_tuple_like_element without its reserved field
reserved_field_omitted(buf) == buf
\* write_tuple_like_element up to its call of write_array_like_element
reserved_field(buf) == buf \o put_u32(0)

write_tuple_like_element(buf, f(_)) ==
    write_array_like_element(reserved_field(buf), f)

\* EncodeTupleLike::write, EncodeInputTuple::write, EncodeArrayLike::write
EncodeTupleLike_write(buf, f(_)) == write_tuple_like_element(buf, f)
EncodeInputTuple_write(buf, f(_)) == write_array_like_element(buf, f)
EncodeArrayLike_write(inner, buf, f(_)) ==
    write_array_like_element(filled_array(inner, buf), f)

(***************************************************************************)
(* serialization/decode_composite.rs is not among the source files: the    *)
(* reader of tuple-like framing follows the layout the specification       *)
(* gives (a 4-byte count, then per element a 4-byte reserved field, a      *)
(* 4-byte length or -1 for an absent element, and the payload).            *)
(***************************************************************************)
DecodeTupleLike_new_object(inp, expected_count) ==
    LET buf == Input_bytes(inp)
    IN  IF ~IsOk(buf) THEN buf
        ELSE IF Len(buf.val) < 4 THEN Err("Underflow")
        ELSE IF get_u32(buf.val) # <<0, expected_count>> THEN Err("ObjectSizeMismatch")
        ELSE Ok(Advance(buf.val, 4))

DecodeTupleLike_read(buf) ==
    IF Len(buf) < 8 THEN Err("Underflow")
    ELSE LET len == get_i32(Advance(buf, 4))
             rest == Advance(buf, 8)
         IN  IF len = -1 THEN Ok([input |-> None, rest |-> rest])
             ELSE IF len < 0 \/ len > Len(rest) THEN Err("Underflow")
             ELSE Ok([input |-> Some(SubSeq(rest, 1, len)), rest |-> Advance(rest, len)])

(***************************************************************************)
(* value.rs: Value.  A value is [kind, v] for a scalar, [kind, items] for  *)
(* Set / Array / Tuple, [kind, shape, fields] for Object / NamedTuple.     *)
(* An Object field is Option<Value>.  A shape is an Arc: [arc, elements],  *)
(* "arc" naming the allocation and "elements" what it holds.               *)
(***************************************************************************)
\* ObjectShape::new: a fresh allocation
ObjectShape_new(elements) == [arc |-> "new", elements |-> elements]

\* Arc::ptr_eq in place of the derived comparison
Shape_eq_by_pointer(a, b) == a.arc = b.arc

\* #[derive(PartialEq)] on ObjectShape and NamedTupleShape: Arc's == compares
\* what the two Arcs hold, the derived == of the Info structs their elements
Shape_eq(a, b) == a.elements = b.elements

SomeV(v) == [some |-> TRUE, v |-> v]
NoneV == [some |-> FALSE]

\* the type a scalar variant of Value holds: Json(String), the others their own
ValueType(name) == IF name = "Json" THEN "Str" ELSE name

(***************************************************************************)
(* value_codec.rs: the dynamic codecs.  A codec is [kind] for a scalar     *)
(* leaf and Nothing, [kind, element] for Set / Array, [kind, inner] for    *)
(* Scalar, [kind, shape, codecs] for Object.  The encoders write to "buf"  *)
(* where the parameter is called "output": both are read as the one        *)
(* output buffer.                                                          *)
(***************************************************************************)
RECURSIVE Codec_encode(_, _, _)
RECURSIVE Codec_decode(_, _)

\* implement_scalar_codec!
Leaf_decode(name, inp) ==
    LET r == ScalarCodec_decode(ValueType(name), inp, FALSE)
    IN  IF ~IsOk(r) THEN r ELSE Ok([kind |-> name, v |-> r.val])
Leaf_encode(name, buf, value) ==
    IF value.kind = name THEN ScalarCodec_encode(ValueType(name), buf, value.v)
    ELSE EncErr("InvalidValue", buf)

\* Nothing's encode without the match on the value
Nothing_encode_any(buf, value) == EncOk(buf)

Nothing_decode(inp) == Ok([kind |-> "Nothing"])
Nothing_encode(buf, value) ==
    IF value.kind = "Nothing" THEN EncOk(buf) ELSE EncErr("InvalidValue", buf)

\* the loop of Set::encode and of Array::encode over the items
RECURSIVE EncodeItems(_, _, _)
EncodeItems(element, buf, items) ==
    IF items = <<>> THEN EncOk(buf)
    ELSE LET pos == Len(buf)
             r == Codec_encode(element, buf \o put_u32(0), Head(items))
         IN  IF r.tag # "Ok" THEN r
             ELSE IF ~InRange(r.buf, pos) THEN EncPanic(r.buf)
             ELSE EncodeItems(element,
                              Overwrite(r.buf, pos, put_u32(Len(r.buf) - pos - 4)),
                              Tail(items))

\* Set's encode that takes an Array for a Set
Set_encode_or_array(self, buf, value) ==
    IF value.kind \notin {"Set", "Array"} THEN EncErr("InvalidValue", buf)
    ELSE IF value.items = <<>>
    THEN EncOk(buf \o put_u32(0) \o put_u32(0) \o put_u32(0))
    ELSE EncodeItems(self.element,
                     buf \o put_u32(1) \o put_u32(0) \o put_u32(0)
                         \o put_u32(Len(value.items)) \o put_u32(1),
                     value.items)

Set_encode(self, buf, value) ==
    IF value.kind # "Set" THEN EncErr("InvalidValue", buf)
    ELSE IF value.items = <<>>
    THEN EncOk(buf \o put_u32(0) \o put_u32(0) \o put_u32(0))
    ELSE EncodeItems(self.element,
                     buf \o put_u32(1) \o put_u32(0) \o put_u32(0)
                         \o put_u32(Len(value.items)) \o put_u32(1),
                     value.items)

Array_encode(self, buf, value) ==
    IF value.kind # "Array" THEN EncErr("InvalidValue", buf)
    ELSE IF value.items = <<>>
    THEN EncOk(buf \o put_u32(0) \o put_u32(0) \o put_u32(0))
    ELSE EncodeItems(self.element,
                     buf \o put_u32(1) \o put_u32(0) \o put_u32(0)
                         \o put_u32(Len(value.items)) \o put_u32(1),
                     value.items)

\* the loop of Object::encode: elements.write(|output| match field { .. })
RECURSIVE ObjectFields(_, _, _)
ObjectFields(codecs, fields, buf) ==
    IF codecs = <<>> \/ fields = <<>> THEN EncOk(buf)
    ELSE LET field == Head(fields)
             r == EncodeTupleLike_write(buf,
                    LAMBDA b : IF field.some THEN Codec_encode(Head(codecs), b, field.v)
                               ELSE EncOk(b \o put_i32(-1)))
         IN  IF r.tag # "Ok" THEN r
             ELSE ObjectFields(Tail(codecs), Tail(fields), r.buf)

\* Object::encode, statement by statement: EncodeTupleLike::new, finish, the
\* count, the fields, and the drop of "elements" on the way out
Object_encode(self, buf, value) ==
    IF value.kind # "Object" THEN EncErr("InvalidValue", buf)
    ELSE IF ~Shape_eq(value.shape, self.shape) THEN EncErr("ObjectShapeMismatch", buf)
    ELSE IF Len(self.codecs) # Len(value.fields) THEN EncErr("ObjectShapeMismatch", buf)
    ELSE LET elements == new_tuple_like(buf)
             finished == finish_tuple_like(elements.inner, elements.buf)
             counted == finished.buf \o put_u32(Len(self.codecs))
             r == ObjectFields(self.codecs, value.fields, counted)
             dropped == finish_tuple_like(elements.inner, r.buf)
         IN  IF finished.tag # "Ok" THEN finished
             ELSE IF r.tag = "Panic" THEN r
             ELSE IF dropped.tag # "Ok" THEN dropped
             ELSE [r EXCEPT !.buf = dropped.buf]

\* for (codec, item) in self.elements.iter().zip(items): the loop of the four
\* tuple encoders, "reserved" saying whether the element starts with put_u32(0)
RECURSIVE TupleItems(_, _, _, _)
TupleItems(codecs, items, buf, reserved) ==
    IF codecs = <<>> \/ items = <<>> THEN EncOk(buf)
    ELSE LET begun == IF reserved THEN buf \o put_u32(0) ELSE buf
             pos == Len(begun)
             r == Codec_encode(Head(codecs), begun \o put_u32(0), Head(items))
         IN  IF r.tag # "Ok" THEN r
             ELSE TupleItems(Tail(codecs), Tail(items),
                             Overwrite(r.buf, pos, put_u32(Len(r.buf) - pos - 4)),
                             reserved)

\* Tuple::encode (reserved) and InputTuple::encode
Tuple_encode(self, buf, value, reserved) ==
    IF value.kind # "Tuple" THEN EncErr("InvalidValue", buf)
    ELSE IF Len(self.elements) # Len(value.items) THEN EncErr("TupleShapeMismatch", buf)
    ELSE TupleItems(self.elements, value.items,
                    buf \o put_u32(Len(self.elements)), reserved)

\* NamedTuple::encode (reserved) and InputNamedTuple::encode
NamedTuple_encode(self, buf, value, reserved) ==
    IF value.kind # "NamedTuple" THEN EncErr("InvalidValue", buf)
    ELSE IF ~Shape_eq(value.shape, self.shape) THEN EncErr("TupleShapeMismatch", buf)
    ELSE IF Len(self.codecs) # Len(value.fields) THEN EncErr("ObjectShapeMismatch", buf)
    ELSE TupleItems(self.codecs, value.fields,
                    buf \o put_u32(Len(self.codecs)), reserved)

\* the map over self.codecs of Object::decode
RECURSIVE DecodeFields(_, _)
DecodeFields(codecs, elements) ==
    IF codecs = <<>> THEN Ok(<<>>)
    ELSE LET e == DecodeTupleLike_read(elements)
         IN  IF ~IsOk(e) THEN e
             ELSE LET v == Codec_decode(Head(codecs), e.val.input)
                  IN  IF ~IsOk(v) THEN v
                      ELSE LET rest == DecodeFields(Tail(codecs), e.val.rest)
                           IN  IF ~IsOk(rest) THEN rest
                               ELSE Ok(<<SomeV(v.val)>> \o rest.val)

Object_decode(self, inp) ==
    LET elements == DecodeTupleLike_new_object(inp, Len(self.codecs))
    IN  IF ~IsOk(elements) THEN elements
        ELSE LET fields == DecodeFields(self.codecs, elements.val)
             IN  IF ~IsOk(fields) THEN fields
                 ELSE Ok([kind |-> "Object", shape |-> self.shape, fields |-> fields.val])

\* Enum decode without the look-up in members
Enum_decode_any(self, inp) ==
    LET name == Str_decode(inp)
    IN  IF ~IsOk(name) THEN name ELSE Ok([kind |-> "Enum", v |-> name.val])
Enum_decode(self, inp) ==
    LET name == Str_decode(inp)
    IN  IF ~IsOk(name) THEN name
        ELSE IF name.val \in self.members THEN Ok([kind |-> "Enum", v |-> name.val])
        ELSE Err("ExtraEnumValue")
Enum_encode(self, buf, value) ==
    IF value.kind # "Enum" THEN EncErr("InvalidValue", buf)
    ELSE IF value.v \notin self.members THEN EncErr("MissingEnumValue", buf)
    ELSE Str_encode(buf, value.v)

Codec_encode(self, buf, value) ==
    CASE self.kind \in ScalarTypes -> Leaf_encode(self.kind, buf, value)
      [] self.kind = "Nothing" -> Nothing_encode(buf, value)
      [] self.kind = "Scalar" -> Codec_encode(self.inner, buf, value)
      [] self.kind = "Set" -> Set_encode(self, buf, value)
      [] self.kind = "Array" -> Array_encode(self, buf, value)
      [] self.kind = "Object" -> Object_encode(self, buf, value)
      [] self.kind = "Enum" -> Enum_encode(self, buf, value)
      [] self.kind = "Tuple" -> Tuple_encode(self, buf, value, TRUE)
      [] self.kind = "InputTuple" -> Tuple_encode(self, buf, value, FALSE)
      [] self.kind = "NamedTuple" -> NamedTuple_encode(self, buf, value, TRUE)
      [] self.kind = "InputNamedTuple" -> NamedTuple_encode(self, buf, value, FALSE)

\* Set::decode and Array::decode read through DecodeArrayLike and are not modelled
HasDecode(self) ==
    \/ self.kind \in ScalarTypes \cup {"Nothing", "Object", "Enum"}
    \/ self.kind = "Scalar" /\ self.inner.kind \in ScalarTypes

Codec_decode(self, inp) ==
    CASE self.kind \in ScalarTypes -> Leaf_decode(self.kind, inp)
      [] self.kind = "Nothing" -> Nothing_decode(inp)
      [] self.kind = "Scalar" -> Codec_decode(self.inner, inp)
      [] self.kind = "Object" -> Object_decode(self, inp)
      [] self.kind = "Enum" -> Enum_decode(self, inp)

(***************************************************************************)
(* serialization/type_ids.rs and value_codec.rs: scalar_codec,             *)
(* CodecBuilder.  A descriptor is [kind, ...] with the fields of its       *)
(* struct; dec is [input, descriptors].  build recurses without a guard:   *)
(* fuel counts the nesting still allowed, and a descent deeper than the    *)
(* catalog is long has met a position twice, which is a descent that       *)
(* never returns ("Diverges").                                             *)
(***************************************************************************)
STD_UUID == 256
STD_STR == 257
STD_BYTES == 258
STD_INT16 == 259
STD_INT32 == 260
STD_INT64 == 261
STD_FLOAT32 == 262
STD_FLOAT64 == 263
STD_DECIMAL == 264
STD_BOOL == 265
STD_DATETIME == 266
CAL_LOCAL_DATETIME == 267
CAL_LOCAL_DATE == 268
CAL_LOCAL_TIME == 269
STD_DURATION == 270
STD_JSON == 271
STD_BIGINT == 272

\* scalar_codec with a bytes codec for every id the table does not hold
scalar_codec_or_bytes(uuid) ==
    CASE uuid = STD_UUID -> Ok([kind |-> "Uuid"])
      [] uuid = STD_STR -> Ok([kind |-> "Str"])
      [] uuid = STD_BYTES -> Ok([kind |-> "Bytes"])
      [] uuid = STD_INT16 -> Ok([kind |-> "Int16"])
      [] uuid = STD_INT32 -> Ok([kind |-> "Int32"])
      [] uuid = STD_INT64 -> Ok([kind |-> "Int64"])
      [] uuid = STD_FLOAT32 -> Ok([kind |-> "Float32"])
      [] uuid = STD_FLOAT64 -> Ok([kind |-> "Float64"])
      [] uuid = STD_DECIMAL -> Ok([kind |-> "Decimal"])
      [] uuid = STD_BOOL -> Ok([kind |-> "Bool"])
      [] uuid = STD_DATETIME -> Ok([kind |-> "Datetime"])
      [] uuid = CAL_LOCAL_DATETIME -> Ok([kind |-> "LocalDatetime"])
      [] uuid = CAL_LOCAL_DATE -> Ok([kind |-> "LocalDate"])
      [] uuid = CAL_LOCAL_TIME -> Ok([kind |-> "LocalTime"])
      [] uuid = STD_DURATION -> Ok([kind |-> "Duration"])
      [] uuid = STD_JSON -> Ok([kind |-> "Json"])
      [] uuid = STD_BIGINT -> Ok([kind |-> "BigInt"])
      [] OTHER -> Ok([kind |-> "Bytes"])

scalar_codec(uuid) ==
    CASE uuid = STD_UUID -> Ok([kind |-> "Uuid"])
      [] uuid = STD_STR -> Ok([kind |-> "Str"])
      [] uuid = STD_BYTES -> Ok([kind |-> "Bytes"])
      [] uuid = STD_INT16 -> Ok([kind |-> "Int16"])
      [] uuid = STD_INT32 -> Ok([kind |-> "Int32"])
      [] uuid = STD_INT64 -> Ok([kind |-> "Int64"])
      [] uuid = STD_FLOAT32 -> Ok([kind |-> "Float32"])
      [] uuid = STD_FLOAT64 -> Ok([kind |-> "Float64"])
      [] uuid = STD_DECIMAL -> Ok([kind |-> "Decimal"])
      [] uuid = STD_BOOL -> Ok([kind |-> "Bool"])
      [] uuid = STD_DATETIME -> Ok([kind |-> "Datetime"])
      [] uuid = CAL_LOCAL_DATETIME -> Ok([kind |-> "LocalDatetime"])
      [] uuid = CAL_LOCAL_DATE -> Ok([kind |-> "LocalDate"])
      [] uuid = CAL_LOCAL_TIME -> Ok([kind |-> "LocalTime"])
      [] uuid = STD_DURATION -> Ok([kind |-> "Duration"])
      [] uuid = STD_JSON -> Ok([kind |-> "Json"])
      [] uuid = STD_BIGINT -> Ok([kind |-> "BigInt"])
      [] OTHER -> Err([name |-> "UndefinedBaseScalar", uuid |-> uuid])

Diverges == [tag |-> "Diverges"]

\* impl From<&[descriptors::ShapeElement]> for ObjectShape
ObjectShape_from(elements) ==
    [arc |-> "from",
     elements |-> [i \in 1..Len(elements) |->
        [flag_implicit |-> elements[i].flag_implicit,
         flag_link_property |-> elements[i].flag_link_property,
         flag_link |-> elements[i].flag_link,
         name |-> elements[i].name]]]

\* impl From<&[descriptors::TupleElement]> for NamedTupleShape
NamedTupleShape_from(elements) ==
    [arc |-> "from",
     elements |-> [i \in 1..Len(elements) |-> [name |-> elements[i].name]]]

RECURSIVE CodecBuilder_build(_, _, _)

\* the collect over an iterator that builds every element before it looks at
\* the results
RECURSIVE BuildAll_eager(_, _, _)
BuildAll_eager(dec, positions, fuel) ==
    IF positions = <<>> THEN Ok(<<>>)
    ELSE LET c == CodecBuilder_build(dec, Head(positions), fuel)
             rest == BuildAll_eager(dec, Tail(positions), fuel)
         IN  IF c = Diverges \/ rest = Diverges THEN Diverges
             ELSE IF ~IsOk(c) THEN c
             ELSE IF ~IsOk(rest) THEN rest
             ELSE Ok(<<c.val>> \o rest.val)

\* positions.iter().map(|t| dec.build(t)).collect::<Result<_, _>>()
RECURSIVE BuildAll(_, _, _)
BuildAll(dec, positions, fuel) ==
    IF positions = <<>> THEN Ok(<<>>)
    ELSE LET c == CodecBuilder_build(dec, Head(positions), fuel)
         IN  IF ~IsOk(c) THEN c
             ELSE LET rest == BuildAll(dec, Tail(positions), fuel)
                  IN  IF ~IsOk(rest) THEN rest ELSE Ok(<<c.val>> \o rest.val)

TypePositions(elements) == [i \in 1..Len(elements) |-> elements[i].type_pos]

\* Set::build without the ? on the element's build
Element_build_lenient(k, d, dec, fuel) ==
    LET element == CodecBuilder_build(dec, d.type_pos, fuel)
    IN  IF ~IsOk(element) THEN Ok([kind |-> k, element |-> [kind |-> "Nothing"]])
        ELSE Ok([kind |-> k, element |-> element.val])

\* Set::build, and the Array arm of CodecBuilder::build
Element_build(k, d, dec, fuel) ==
    LET element == CodecBuilder_build(dec, d.type_pos, fuel)
    IN  IF ~IsOk(element) THEN element ELSE Ok([kind |-> k, element |-> element.val])

Object_build(d, dec, fuel) ==
    LET codecs == BuildAll(dec, TypePositions(d.elements), fuel)
    IN  IF ~IsOk(codecs) THEN codecs
        ELSE Ok([kind |-> "Object", shape |-> ObjectShape_from(d.elements),
                 codecs |-> codecs.val])

\* Tuple::build that builds its elements from the last to the first
RECURSIVE Reverse(_)
Reverse(s) == IF s = <<>> THEN <<>> ELSE Append(Reverse(Tail(s)), Head(s))
Tuple_build_backwards(k, d, dec, fuel) ==
    LET elements == BuildAll(dec, Reverse(d.element_types), fuel)
    IN  IF ~IsOk(elements) THEN elements
        ELSE Ok([kind |-> k, elements |-> Reverse(elements.val)])

\* Tuple::build and InputTuple::build
Tuple_build(k, d, dec, fuel) ==
    LET elements == BuildAll(dec, d.element_types, fuel)
    IN  IF ~IsOk(elements) THEN elements ELSE Ok([kind |-> k, elements |-> elements.val])

\* NamedTuple::build and InputNamedTuple::build
NamedTuple_build(k, d, dec, fuel) ==
    LET codecs == BuildAll(dec, TypePositions(d.elements), fuel)
    IN  IF ~IsOk(codecs) THEN codecs
        ELSE Ok([kind |-> k, shape |-> NamedTupleShape_from(d.elements),
                 codecs |-> codecs.val])

CodecBuilder_build(dec, pos, fuel) ==
    IF fuel = 0 THEN Diverges
    ELSE IF pos < Len(dec.descriptors)
    THEN LET item == dec.descriptors[pos + 1]
         IN  CASE item.kind = "BaseScalar" -> scalar_codec(item.id)
               [] item.kind = "Set" -> Element_build("Set", item, dec, fuel - 1)
               [] item.kind = "ObjectShape" -> Object_build(item, dec, fuel - 1)
               [] item.kind = "Scalar" ->
                    LET inner == CodecBuilder_build(dec, item.base_type_pos, fuel - 1)
                    IN  IF ~IsOk(inner) THEN inner
                        ELSE Ok([kind |-> "Scalar", inner |-> inner.val])
               [] item.kind = "Tuple" ->
                    IF dec.input THEN Tuple_build("InputTuple", item, dec, fuel - 1)
                    ELSE Tuple_build("Tuple", item, dec, fuel - 1)
               [] item.kind = "NamedTuple" ->
                    IF dec.input THEN NamedTuple_build("InputNamedTuple", item, dec, fuel - 1)
                    ELSE NamedTuple_build("NamedTuple", item, dec, fuel - 1)
               [] item.kind = "Array" -> Element_build("Array", item, dec, fuel - 1)
               [] item.kind = "Enumeration" ->
                    Ok([kind |-> "Enum",
                        members |-> {item.members[i] : i \in 1..Len(item.members)}])
               [] item.kind = "TypeAnnotation" -> Panic
    ELSE Err([name |-> "UnexpectedTypePos", position |-> pos])

\* root_pos is Some(pos) or None
build_codec(root_pos, descriptors) ==
    LET dec == [input |-> FALSE, descriptors |-> descriptors]
    IN  IF root_pos.some THEN CodecBuilder_build(dec, root_pos.pos, Len(descriptors) + 1)
        ELSE Ok([kind |-> "Nothing"])

\* build_input_codec with the builder of build_codec
build_input_codec_as_output(root_pos, descriptors) ==
    LET dec == [input |-> FALSE, descriptors |-> descriptors]
    IN  IF root_pos.some THEN CodecBuilder_build(dec, root_pos.pos, Len(descriptors) + 1)
        ELSE Ok([kind |-> "Nothing"])

build_input_codec(root_pos, descriptors) ==
    LET dec == [input |-> TRUE, descriptors |-> descriptors]
    IN  IF root_pos.some THEN CodecBuilder_build(dec, root_pos.pos, Len(descriptors) + 1)
        ELSE Ok([kind |-> "Nothing"])

(***************************************************************************)
(* queryable.rs, serialization/codecs/scalars.rs and tuples.rs:            *)
(* check_descriptor.  ctx is [descriptors].  A static type is              *)
(* [kind |-> "scalar", name] for a type ScalarCodec implements Codec for,  *)
(* or [kind |-> "tuple", elements] for a tuple of static types.            *)
(* check_scalar follows aliases without a guard: fuel counts the aliases   *)
(* still allowed, and a chain longer than the catalog has met a position   *)
(* twice and never ends ("Diverges").                                      *)
(***************************************************************************)
DescriptorContext_new(descs) == [descriptors |-> descs]

\* get that answers a position past the end with the first descriptor
DescriptorContext_get_wrapping(ctx, type_pos) ==
    IF type_pos < Len(ctx.descriptors) THEN Ok(ctx.descriptors[type_pos + 1])
    ELSE IF Len(ctx.descriptors) > 0 THEN Ok(ctx.descriptors[1])
    ELSE Err([name |-> "InvalidDescriptor"])

DescriptorContext_get(ctx, type_pos) ==
    IF type_pos < Len(ctx.descriptors) THEN Ok(ctx.descriptors[type_pos + 1])
    ELSE Err([name |-> "InvalidDescriptor"])

wrong_type(descriptor, expected) ==
    [name |-> "WrongType", unexpected |-> descriptor, expected |-> expected]

field_number_swapped(expected, unexpected) ==
    [name |-> "FieldNumber", expected |-> unexpected, unexpected |-> expected]
field_number(expected, unexpected) ==
    [name |-> "FieldNumber", expected |-> expected, unexpected |-> unexpected]

RECURSIVE check_scalar(_, _, _, _, _)
check_scalar(ctx, type_pos, type_id, name, fuel) ==
    IF fuel = 0 THEN Diverges
    ELSE LET desc == DescriptorContext_get(ctx, type_pos)
         IN  IF ~IsOk(desc) THEN desc
             ELSE IF desc.val.kind = "Scalar"
             THEN check_scalar(ctx, desc.val.base_type_pos, type_id, name, fuel - 1)
             ELSE IF desc.val.kind = "BaseScalar" /\ desc.val.id = type_id
             THEN Ok(<<>>)
             ELSE Err(wrong_type(desc.val, name))

\* the type id and the name each check_descriptor of ScalarCodec hands on
ScalarTypeId(T) ==
    CASE T = "Str" -> STD_STR
      [] T = "Json" -> STD_JSON
      [] T = "Uuid" -> STD_UUID
      [] T = "Bool" -> STD_BOOL
      [] T = "Int16" -> STD_INT16
      [] T = "Int32" -> STD_INT32
      [] T = "Int64" -> STD_INT64
      [] T = "Float32" -> STD_FLOAT32
      [] T = "Float64" -> STD_FLOAT64
      [] T = "Bytes" -> STD_BYTES
      [] T = "Decimal" -> STD_DECIMAL
      [] T = "BigInt" -> STD_BIGINT
      [] T = "Duration" -> STD_DURATION
      [] T = "Datetime" -> STD_DATETIME
      [] T = "SystemTime" -> STD_DATETIME
      [] T = "LocalDatetime" -> CAL_LOCAL_DATETIME
      [] T = "LocalDate" -> CAL_LOCAL_DATE
      [] T = "LocalTime" -> CAL_LOCAL_TIME

ScalarTypeName(T) ==
    CASE T = "Str" -> "str"
      [] T = "Json" -> "json"
      [] T = "Uuid" -> "uuid"
      [] T = "Bool" -> "bool"
      [] T = "Int16" -> "int16"
      [] T = "Int32" -> "int32"
      [] T = "Int64" -> "int64"
      [] T = "Float32" -> "float32"
      [] T = "Float64" -> "float64"
      [] T = "Bytes" -> "bytes"
      [] T = "Decimal" -> "decimal"
      [] T = "BigInt" -> "bigint"
      [] T = "Duration" -> "duration"
      [] T = "Datetime" -> "datetime"
      [] T = "SystemTime" -> "datetime"
      [] T = "LocalDatetime" -> "cal::local_datetime"
      [] T = "LocalDate" -> "cal::local_date"
      [] T = "LocalTime" -> "cal::local_time"

\* check_descriptor that looks at the descriptor at type_pos only
ScalarCodec_check_descriptor_direct(T, ctx, type_pos) ==
    LET desc == DescriptorContext_get(ctx, type_pos)
    IN  IF ~IsOk(desc) THEN desc
        ELSE IF desc.val.kind = "BaseScalar" /\ desc.val.id = ScalarTypeId(T)
        THEN Ok(<<>>)
        ELSE Err(wrong_type(desc.val, ScalarTypeName(T)))

ScalarCodec_check_descriptor(T, ctx, type_pos) ==
    check_scalar(ctx, type_pos, ScalarTypeId(T), ScalarTypeName(T),
                 Len(ctx.descriptors) + 1)

RECURSIVE Queryable_check_descriptor(_, _, _)

\* $($name::check_descriptor(ctx, element_types.next().unwrap())?;)+
RECURSIVE CheckElements(_, _, _)
CheckElements(names, ctx, element_types) ==
    IF names = <<>> THEN Ok(<<>>)
    ELSE LET r == Queryable_check_descriptor(Head(names), ctx, Head(element_types))
         IN  IF ~IsOk(r) THEN r
             ELSE CheckElements(Tail(names), ctx, Tail(element_types))

\* implement_tuple!: check_descriptor, $count the number of names
Tuple_check_descriptor(T, ctx, type_pos) ==
    LET desc == DescriptorContext_get(ctx, type_pos)
    IN  IF ~IsOk(desc) THEN desc
        ELSE IF desc.val.kind = "Tuple"
        THEN IF Len(desc.val.element_types) # Len(T.elements)
             THEN Err(field_number(Len(T.elements), Len(desc.val.element_types)))
             ELSE CheckElements(T.elements, ctx, desc.val.element_types)
        ELSE Err(wrong_type(desc.val, "tuple"))

Queryable_check_descriptor(T, ctx, type_pos) ==
    IF T.kind = "tuple" THEN Tuple_check_descriptor(T, ctx, type_pos)
    ELSE ScalarCodec_check_descriptor(T.name, ctx, type_pos)

(***************************************************************************)
(* Descriptor catalogs: every catalog of at most MaxCatalog descriptors    *)
(* whose references lie in 0..MaxCatalog (so out of bounds included), and  *)
(* two longer ones with deeper nesting.                                    *)
(***************************************************************************)
MaxCatalog == 2   \* descriptors of a generated catalog

UnknownId == 4096 \* an id scalar_codec has no arm for

ShapeElement(name, type_pos) ==
    [flag_implicit |-> FALSE, flag_link_property |-> FALSE, flag_link |-> FALSE,
     name |-> name, type_pos |-> type_pos]

TupleElement(name, type_pos) == [name |-> name, type_pos |-> type_pos]

\* sequences of at most n members of S
SeqsUpTo(S, n) == UNION {[1..m -> S] : m \in 0..n}

Positions == 0..MaxCatalog

Shapes ==
    {[kind |-> "BaseScalar", id |-> i] : i \in {STD_INT64, UnknownId}}
    \cup {[kind |-> "Scalar", base_type_pos |-> p] : p \in Positions}
    \cup {[kind |-> k, type_pos |-> p] : k \in {"Set", "Array"}, p \in Positions}
    \cup {[kind |-> "Tuple", element_types |-> <<p>>] : p \in Positions}
    \cup {[kind |-> "Tuple", element_types |-> <<p, 1>>] : p \in Positions}
    \cup {[kind |-> "NamedTuple", elements |-> <<TupleElement("x", p)>>] : p \in Positions}
    \cup {[kind |-> "ObjectShape", elements |-> <<ShapeElement("a", p)>>] : p \in Positions}
    \cup {[kind |-> "TypeAnnotation"]}

Descriptors ==
    << [kind |-> "BaseScalar", id |-> STD_INT64],
       [kind |-> "BaseScalar", id |-> STD_JSON],
       [kind |-> "BaseScalar", id |-> STD_STR],
       [kind |-> "Scalar", base_type_pos |-> 1],
       [kind |-> "Set", type_pos |-> 0],
       [kind |-> "Array", type_pos |-> 2],
       [kind |-> "ObjectShape",
        elements |-> <<ShapeElement("a", 0), ShapeElement("b", 0)>>],
       [kind |-> "Set", type_pos |-> 6],
       [kind |-> "Enumeration", members |-> << <<97>>, <<123, 125>> >>],
       [kind |-> "Tuple", element_types |-> <<0, 2>>],
       [kind |-> "NamedTuple",
        elements |-> <<TupleElement("x", 0), TupleElement("y", 2)>>] >>

Nested ==
    << [kind |-> "BaseScalar", id |-> STD_INT64],
       [kind |-> "BaseScalar", id |-> STD_STR],
       [kind |-> "Scalar", base_type_pos |-> 0],
       [kind |-> "Scalar", base_type_pos |-> 2],
       [kind |-> "Tuple", element_types |-> <<0, 1, 3>>],
       [kind |-> "Tuple", element_types |-> <<0, 1>>],
       [kind |-> "Tuple", element_types |-> <<5, 3>>],
       [kind |-> "NamedTuple",
        elements |-> <<TupleElement("x", 6), TupleElement("y", 4)>>],
       [kind |-> "Array", type_pos |-> 7],
       [kind |-> "ObjectShape",
        elements |-> <<ShapeElement("a", 8), ShapeElement("b", 10)>>],
       [kind |-> "Tuple", element_types |-> <<>>],
       [kind |-> "Set", type_pos |-> 9],
       [kind |-> "Tuple", element_types |-> <<11, 14>>],
       [kind |-> "Tuple", element_types |-> <<13, 0>>] >>

\* type ids: the 17 of type_ids.rs, their two neighbours, 0 and UnknownId
SampleIds == {0, UnknownId} \cup ((STD_UUID - 1)..(STD_BIGINT + 1))

\* catalogs of one base scalar
ScalarCatalogs == {<<[kind |-> "BaseScalar", id |-> i]>> : i \in SampleIds}

\* composite nodes with several references that fail to build
Broken ==
    << [kind |-> "BaseScalar", id |-> UnknownId],
       [kind |-> "TypeAnnotation"],
       [kind |-> "NamedTuple",
        elements |-> <<TupleElement("x", 0), TupleElement("y", 9)>>],
       [kind |-> "ObjectShape",
        elements |-> <<ShapeElement("a", 9), ShapeElement("b", 0)>>],
       [kind |-> "NamedTuple",
        elements |-> <<TupleElement("x", 3), TupleElement("y", 1)>>],
       [kind |-> "Tuple", element_types |-> <<6, 0, 9, 1>>],
       [kind |-> "BaseScalar", id |-> STD_BOOL] >>

Catalogs ==
    SeqsUpTo(Shapes, MaxCatalog) \cup ScalarCatalogs \cup {Descriptors, Nested, Broken}

\* root_pos: None, every position of the catalog, and the first one past it
RootsOf(descs) ==
    {[some |-> FALSE]} \cup {[some |-> TRUE, pos |-> p] : p \in 0..Len(descs)}

\* the catalogs tried with an absent root
RootlessCatalogs ==
    {descs \in Catalogs : Len(descs) < MaxCatalog} \cup {Descriptors, Nested, Broken}

(***************************************************************************)
(* The composite encoders in use.  A caller opens an encoder on the        *)
(* output (New), writes elements through it (WriteBegin, the closure's     *)
(* own writes, WriteEnd), and drops it (Finish).  The closure of a write   *)
(* gets the output and may encode a scalar or open a nested encoder.       *)
(* A frame of the stack is an EncodeCompositeInner (position, count) or    *)
(* the write in progress (pos); "elems" remembers what was written.        *)
(***************************************************************************)
MaxOutput == 40   \* an encoder is opened or written to while the output is shorter
MaxItems == 2     \* items of a Set / Array value

Containers == {"TupleLike", "InputTuple", "ArrayLike"}

Frame(k, position, pos) ==
    [kind |-> k, position |-> position, count |-> 0, elems |-> <<>>,
     pos |-> pos, filled |-> FALSE]

Top == stack[Len(stack)]
Pop == SubSeq(stack, 1, Len(stack) - 1)
Inner(frame) == [position |-> frame.position, count |-> frame.count]

\* what the closures encode: payloads of 1, 4 and 8 bytes
Payloads == {<<"Bool", TRUE>>, <<"Int32", 7>>, <<"Int64", I64(5)>>}

\* EncodeTupleLike::new, EncodeInputTuple::new, EncodeArrayLike::new
New(k) ==
    /\ \/ pc = "idle" /\ stack = NoFrames
       \/ pc = "open" /\ Top.kind = "Element" /\ ~Top.filled
    /\ Len(output) < MaxOutput
    /\ LET r == IF k = "ArrayLike" THEN new_array_like(output) ELSE new_tuple_like(output)
           under == IF stack = NoFrames THEN stack
                    ELSE [stack EXCEPT ![Len(stack)].filled = TRUE]
       IN  /\ output' = r.buf
           /\ stack' = Append(under, [Frame(k, r.inner.position, 0)
                                        EXCEPT !.count = r.inner.count])
    /\ start' = IF stack = NoFrames THEN Len(output) ELSE start
    /\ pc' = "open"
    /\ last' = NoLast
    /\ UNCHANGED <<kind, val, input, result, codec, catalog, asked>>

\* EncodeTupleLike::write, EncodeInputTuple::write, EncodeArrayLike::write
\* up to the call of the closure
WriteBegin ==
    /\ pc = "open"
    /\ Top.kind \in Containers
    /\ Len(output) < MaxOutput
    /\ output' = CASE Top.kind = "TupleLike" -> element_begin(reserved_field(output))
                   [] Top.kind = "InputTuple" -> element_begin(output)
                   [] Top.kind = "ArrayLike" ->
                        element_begin(filled_array(Inner(Top), output))
    /\ stack' = Append(stack, Frame("Element", 0, Len(output')))
    /\ last' = NoLast
    /\ UNCHANGED <<pc, kind, val, start, input, result, codec, catalog, asked>>

\* the closure encodes a scalar
Payload ==
    /\ pc = "open"
    /\ Top.kind = "Element"
    /\ ~Top.filled
    /\ \E p \in Payloads :
         LET r == ScalarCodec_encode(p[1], output, p[2])
         IN  /\ r.tag = "Ok"
             /\ output' = r.buf
    /\ stack' = [stack EXCEPT ![Len(stack)].filled = TRUE]
    /\ last' = NoLast
    /\ UNCHANGED <<pc, kind, val, start, input, result, codec, catalog, asked>>

\* the write from the closure's return of Ok(()): the length patch
WriteEnd ==
    /\ pc = "open"
    /\ Top.kind = "Element"
    /\ LET r == element_end(Top.pos, EncOk(output))
           payload == SubSeq(output, Top.pos + 1, Len(output))
           element == [null |-> FALSE, payload |-> payload]
           under == Pop
       IN  IF r.tag = "Panic"
           THEN /\ pc' = "panic"
                /\ stack' = NoFrames
                /\ last' = [kind |-> "panic", pos |-> Top.pos, payload |-> payload]
                /\ UNCHANGED output
           ELSE /\ pc' = "open"
                /\ output' = r.buf
                /\ stack' = [under EXCEPT ![Len(under)].elems = Append(@, element)]
                /\ last' = [kind |-> "write", pos |-> Top.pos, payload |-> payload]
    /\ UNCHANGED <<kind, val, start, input, result, codec, catalog, asked>>

\* EncodeTupleLike::write_null
WriteNull ==
    /\ pc = "open"
    /\ Top.kind = "TupleLike"
    /\ Len(output) < MaxOutput
    /\ output' = write_null(output)
    /\ stack' = [stack EXCEPT ![Len(stack)].elems =
                    Append(@, [null |-> TRUE, payload |-> <<>>])]
    /\ last' = NoLast
    /\ UNCHANGED <<pc, kind, val, start, input, result, codec, catalog, asked>>

\* Drop of EncodeTupleLike, EncodeInputTuple, EncodeArrayLike
Finish ==
    /\ pc = "open"
    /\ Top.kind \in Containers
    /\ LET r == IF Top.kind = "ArrayLike" THEN finish_array_like(Inner(Top), output)
                ELSE finish_tuple_like(Inner(Top), output)
       IN  IF r.tag = "Panic"
           THEN /\ pc' = "panic"
                /\ stack' = NoFrames
                /\ last' = NoLast
                /\ UNCHANGED output
           ELSE /\ output' = r.buf
                /\ stack' = Pop
                /\ pc' = IF Len(stack) = 1 THEN "done" ELSE "open"
                /\ last' = [kind |-> Top.kind, position |-> Top.position,
                            elems |-> Top.elems,
                            bytes |-> SubSeq(r.buf, Top.position + 1, Len(r.buf))]
    /\ UNCHANGED <<kind, val, start, input, result, codec, catalog, asked>>

(***************************************************************************)
(* The dynamic codecs in use: a codec is built from a descriptor catalog   *)
(* (BuildCodec), then encodes a value (CodecEncode) whose bytes it decodes *)
(* again (CodecDecode), or decodes a byte span (CodecDecodeSpan).          *)
(***************************************************************************)
Roots == RootsOf(Descriptors)

NoCodec == [kind |-> "none"]
NoRoot == [some |-> FALSE]

ItemValues(T) ==
    CASE T = "Int64" -> {I64(1), I64_MIN}
      [] T = "Str" -> {<<>>, <<123, 125>>}
      [] OTHER -> Values(T)

\* the values a codec is handed: of its own kind
RECURSIVE ValuesOf(_, _)
ValuesOf(c, nested) ==
    CASE c.kind \in ScalarTypes ->
           {[kind |-> c.kind, v |-> x] :
               x \in IF nested THEN ItemValues(ValueType(c.kind))
                     ELSE Values(ValueType(c.kind))}
      [] c.kind = "Nothing" -> {[kind |-> "Nothing"]}
      [] c.kind = "Enum" -> {[kind |-> "Enum", v |-> s] : s \in c.members \cup {<<122>>}}
      [] c.kind = "Scalar" -> ValuesOf(c.inner, nested)
      [] c.kind \in {"Set", "Array"} ->
           {[kind |-> c.kind, items |-> s] :
               s \in SeqsUpTo(ValuesOf(c.element, TRUE), IF nested THEN 1 ELSE MaxItems)}
      [] c.kind = "Object" ->
           {[kind |-> "Object", shape |-> c.shape, fields |-> f] :
               f \in {g \in [1..Len(c.codecs) ->
                               {NoneV} \cup UNION {{SomeV(x) : x \in ValuesOf(c.codecs[i], TRUE)} :
                                                      i \in 1..Len(c.codecs)}] :
                        \A i \in 1..Len(c.codecs) :
                            g[i].some => g[i].v \in ValuesOf(c.codecs[i], TRUE)}}
      [] c.kind \in {"Tuple", "InputTuple"} ->
           {[kind |-> "Tuple", items |-> s] :
               s \in {g \in [1..Len(c.elements) ->
                               UNION {ValuesOf(c.elements[i], TRUE) : i \in 1..Len(c.elements)}] :
                        \A i \in 1..Len(c.elements) : g[i] \in ValuesOf(c.elements[i], TRUE)}}
      [] c.kind \in {"NamedTuple", "InputNamedTuple"} ->
           {[kind |-> "NamedTuple", shape |-> c.shape, fields |-> s] :
               s \in {g \in [1..Len(c.codecs) ->
                               UNION {ValuesOf(c.codecs[i], TRUE) : i \in 1..Len(c.codecs)}] :
                        \A i \in 1..Len(c.codecs) : g[i] \in ValuesOf(c.codecs[i], TRUE)}}

\* the shapes a value may carry to a codec of shape "shape": the codec's own
\* Arc, another allocation holding equal elements, one whose first element has
\* another name, and one with an element less
ShapesLike(shape) ==
    {shape, [shape EXCEPT !.arc = "other"]}
    \cup (IF shape.elements = <<>> THEN {}
          ELSE {[arc |-> "other", elements |-> [shape.elements EXCEPT ![1].name = "z"]],
                [arc |-> "other", elements |-> Tail(shape.elements)]})

\* the Values of a composite codec's own variant, of every length up to one
\* more than the codec's and of every shape of ShapesLike
ShapedValues(c) ==
    CASE c.kind \in {"Tuple", "InputTuple"} ->
           {[kind |-> "Tuple", items |-> s] :
               s \in SeqsUpTo(UNION {ValuesOf(c.elements[i], TRUE) : i \in 1..Len(c.elements)},
                              Len(c.elements) + 1)}
      [] c.kind \in {"NamedTuple", "InputNamedTuple"} ->
           {[kind |-> "NamedTuple", shape |-> sh, fields |-> s] :
               sh \in ShapesLike(c.shape),
               s \in SeqsUpTo(UNION {ValuesOf(c.codecs[i], TRUE) : i \in 1..Len(c.codecs)},
                              Len(c.codecs) + 1)}
      [] c.kind = "Object" ->
           {[kind |-> "Object", shape |-> sh, fields |-> s] :
               sh \in ShapesLike(c.shape),
               s \in SeqsUpTo({NoneV} \cup UNION {{SomeV(x) : x \in ValuesOf(c.codecs[i], TRUE)} :
                                                     i \in 1..Len(c.codecs)},
                              Len(c.codecs) + 1)}

\* byte spans for the dynamic decoders: the scalar spans up to 3 bytes, and
\* an object of two elements with the second absent
ObjectSpan ==
    put_u32(2) \o put_u32(0) \o put_u32(8) \o put_i64(I64(1)) \o put_u32(0) \o put_i32(-1)
CodecInputs ==
    {None, Some(ObjectSpan), Some(<<1, 123, 125>>), Some(<<123, 125>>)}
    \cup {Some(b) : b \in {s \in Spans : Len(s) <= 1}}

\* build_codec or build_input_codec on the catalog descs
BuildStep(root, input_mode, descs) ==
    LET r == IF input_mode THEN build_input_codec(root, descs)
             ELSE build_codec(root, descs)
    IN  /\ codec' = IF IsOk(r) THEN r.val ELSE NoCodec
        /\ result' = IF IsOk(r) THEN Ok(<<>>) ELSE r
        /\ kind' = IF input_mode THEN "build_input_codec" ELSE "build_codec"
        /\ catalog' = descs
        /\ asked' = root
        /\ pc' = "built"
        /\ UNCHANGED <<output, val, start, input, stack, last>>

BuildCodec ==
    /\ pc = "idle"
    /\ stack = NoFrames
    /\ \E root \in Roots : \E input_mode \in BOOLEAN :
         \E descs \in IF root.some THEN {Descriptors} ELSE RootlessCatalogs :
            BuildStep(root, input_mode, descs)

CodecEncode ==
    /\ pc = "built"
    /\ IsOk(result)
    /\ \E value \in ValuesOf(codec, FALSE) :
         LET r == Codec_encode(codec, output, value)
         IN  /\ val' = value
             /\ output' = r.buf
             /\ result' = IF r.tag = "Err" THEN Err(r.err) ELSE [tag |-> r.tag]
    /\ start' = Len(output)
    /\ pc' = "cencoded"
    /\ UNCHANGED <<kind, input, stack, last, codec, catalog, asked>>

\* the kind of Value a codec encodes
RECURSIVE ValueKind(_)
ValueKind(c) ==
    CASE c.kind = "Scalar" -> ValueKind(c.inner)
      [] c.kind = "InputTuple" -> "Tuple"
      [] c.kind = "InputNamedTuple" -> "NamedTuple"
      [] OTHER -> c.kind

OtherValues ==
    {[kind |-> "Nothing"], [kind |-> "Int64", v |-> I64(1)], [kind |-> "Str", v |-> <<>>],
     [kind |-> "Set", items |-> <<>>], [kind |-> "Enum", v |-> <<97>>],
     [kind |-> "Array", items |-> <<>>], [kind |-> "Tuple", items |-> <<>>],
     [kind |-> "Json", v |-> <<>>],
     [kind |-> "Object", shape |-> ObjectShape_new(<<>>), fields |-> <<>>],
     [kind |-> "NamedTuple", shape |-> NamedTupleShape_from(<<>>), fields |-> <<>>]}

\* Codec::encode handed a Value of another kind than the codec's
EncodeOtherKind ==
    /\ pc = "built"
    /\ IsOk(result)
    /\ ValueKind(codec) \in ScalarTypes \cup {"Nothing", "Set", "Array", "Object", "Enum",
                                             "Tuple", "NamedTuple"}
    /\ \E value \in OtherValues :
         LET r == Codec_encode(codec, output, value)
         IN  /\ value.kind # ValueKind(codec)
             /\ val' = value
             /\ output' = r.buf
             /\ result' = IF r.tag = "Err" THEN Err(r.err) ELSE [tag |-> r.tag]
    /\ start' = Len(output)
    /\ pc' = "cother"
    /\ UNCHANGED <<kind, input, stack, last, codec, catalog, asked>>

\* Codec::encode of a composite codec handed a Value of its own variant, of
\* any length and shape
EncodeShaped ==
    /\ pc = "built"
    /\ IsOk(result)
    /\ codec.kind \in {"Object", "Tuple", "InputTuple", "NamedTuple", "InputNamedTuple"}
    /\ \E value \in ShapedValues(codec) :
         LET r == Codec_encode(codec, output, value)
         IN  /\ val' = value
             /\ output' = r.buf
             /\ result' = IF r.tag = "Err" THEN Err(r.err) ELSE [tag |-> r.tag]
    /\ start' = Len(output)
    /\ pc' = "cshaped"
    /\ UNCHANGED <<kind, input, stack, last, codec, catalog, asked>>

CodecDecode ==
    /\ pc = "cencoded"
    /\ result.tag = "Ok"
    /\ HasDecode(codec)
    /\ input' = Some(Appended)
    /\ result' = Codec_decode(codec, input')
    /\ pc' = "cdecoded"
    /\ UNCHANGED <<output, kind, val, start, stack, last, codec, catalog, asked>>

CodecDecodeSpan ==
    /\ pc = "built"
    /\ IsOk(result)
    /\ HasDecode(codec)
    /\ \E inp \in CodecInputs :
         /\ input' = inp
         /\ result' = Codec_decode(codec, inp)
    /\ pc' = "cspan"
    /\ UNCHANGED <<output, kind, val, start, stack, last, codec, catalog, asked>>

CompositeReset ==
    /\ pc \in {"done", "panic", "built", "cencoded", "cother", "cshaped", "cdecoded", "cspan",
              "threads", "checked", "ctx", "got"}
    /\ output' \in Prefixes
    /\ pc' = "idle"
    /\ kind' = "none"
    /\ val' = <<>>
    /\ start' = 0
    /\ input' = None
    /\ result' = Ok(<<>>)
    /\ stack' = NoFrames
    /\ last' = NoLast
    /\ codec' = NoCodec
    /\ catalog' = <<>>
    /\ asked' = NoRoot

CompositeNext ==
    \/ \E k \in Containers : New(k)
    \/ WriteBegin
    \/ Payload
    \/ WriteEnd
    \/ WriteNull
    \/ Finish
    \/ BuildCodec
    \/ CodecEncode
    \/ EncodeOtherKind
    \/ EncodeShaped
    \/ CodecDecode
    \/ CodecDecodeSpan
    \/ CompositeReset

CompositeSpec == Init /\ [][CompositeNext]_vars

(***************************************************************************)
(* The builder on every catalog, and check_descriptor on every catalog.    *)
(***************************************************************************)
BuildAny ==
    /\ pc = "idle"
    /\ stack = NoFrames
    /\ \E descs \in Catalogs : \E root \in RootsOf(descs) : \E input_mode \in BOOLEAN :
         BuildStep(root, input_mode, descs)

BuilderNext == BuildAny \/ CompositeReset

BuilderSpec == Init /\ [][BuilderNext]_vars

Scalar(name) == [kind |-> "scalar", name |-> name]
Tuple(elements) == [kind |-> "tuple", elements |-> elements]

StaticTypes ==
    {Scalar("Int64"), Scalar("Str"),
     Tuple(<<Scalar("Int64")>>),
     Tuple(<<Scalar("Str"), Scalar("Int64")>>),
     Tuple(<<Scalar("Int64"), Scalar("Str"), Scalar("Int64")>>),
     Tuple(<<Tuple(<<Scalar("Int64"), Scalar("Str")>>), Scalar("Int64")>>)}

\* T::check_descriptor(&DescriptorContext::new(descs), type_pos)
CheckDescriptor ==
    /\ pc = "idle"
    /\ stack = NoFrames
    /\ \E descs \in Catalogs : \E T \in StaticTypes : \E type_pos \in 0..Len(descs) :
         /\ kind' = T
         /\ catalog' = descs
         /\ asked' = [some |-> TRUE, pos |-> type_pos]
         /\ result' = Queryable_check_descriptor(T, DescriptorContext_new(descs), type_pos)
    /\ pc' = "checked"
    /\ UNCHANGED <<output, val, start, input, stack, last, codec>>

\* DescriptorContext::new(descs)
NewContext ==
    /\ pc = "idle"
    /\ stack = NoFrames
    /\ \E descs \in Catalogs : catalog' = descs
    /\ kind' = "DescriptorContext"
    /\ pc' = "ctx"
    /\ UNCHANGED <<output, val, start, input, result, stack, last, codec, asked>>

\* ctx.get(type_pos) on the context made last, any number of times
GetDescriptor ==
    /\ pc \in {"ctx", "got"}
    /\ \E type_pos \in 0..(Len(catalog) + 1) :
         /\ asked' = [some |-> TRUE, pos |-> type_pos]
         /\ result' = DescriptorContext_get(DescriptorContext_new(catalog), type_pos)
    /\ pc' = "got"
    /\ UNCHANGED <<output, kind, val, start, input, stack, last, codec, catalog>>

CheckNext == CheckDescriptor \/ NewContext \/ GetDescriptor \/ CompositeReset

CheckSpec == Init /\ [][CheckNext]_vars

(***************************************************************************)
(* model/time.rs: LocalDate::try_from_ymd, from_ymd and to_ymd.  A u32 is  *)
(* held as its value less 2^31, so that every u32 is a number of the       *)
(* model; an i32 is held as itself.  "overflow_checks" is the build's      *)
(* setting: with it an i32 operation that overflows panics, without it the *)
(* result wraps.                                                           *)
(***************************************************************************)
I32_MAX == 2147483647
DAYS_IN_400_YEARS == 400 * 365 + 97
DAYS_IN_100_YEARS == 100 * 365 + 24
DAYS_IN_4_YEARS == 4 * 365 + 1
DAYS_IN_1_YEAR == 365
DAY_TO_MONTH_365 == <<0, 31, 59, 90, 120, 151, 181, 212, 243, 273, 304, 334, 365>>
DAY_TO_MONTH_366 == <<0, 31, 60, 91, 121, 152, 182, 213, 244, 274, 305, 335, 366>>
DAY_TO_MONTH_MARCH == <<0, 31, 61, 92, 122, 153, 184, 214, 245, 275, 306, 337>>

\* u32 / d and u32 % d for a u32 held as t = value - 2^31
U32_div(t, d) ==
    IF t < 0 THEN (t + I32_MAX + 1) \div d
    ELSE (I32_MAX \div d) + (t \div d) + (((I32_MAX % d) + 1 + (t % d)) \div d)
U32_rem(t, d) ==
    IF t < 0 THEN (t + I32_MAX + 1) % d
    ELSE ((I32_MAX % d) + 1 + (t % d)) % d

\* (u as i32): the same 32 bits
U32_as_i32(t) == IF t >= 0 THEN t - I32_MAX - 1 ELSE t + I32_MAX + 1
\* (i as u32).wrapping_add(c) for 0 <= c <= I32_MAX
I32_as_u32_wrapping_add(i, c) ==
    IF i > I32_MAX - c THEN (i - I32_MAX - 1) + c
    ELSE IF i + c >= 0 THEN (i + c) - I32_MAX - 1
    ELSE (i + c) + I32_MAX + 1

\* passed_years is a u32 below 2^31 throughout; days_from_year and its sum
\* with day_in_year are u32 (no u32 operation overflows for a year of the
\* range); the cast to i32 keeps the bits and the subtraction is of i32
try_from_ymd(year, month, day, overflow_checks) ==
    IF day < 1 \/ day > 31 THEN Err("OutOfRangeError")
    ELSE IF month < 1 \/ month > 12 THEN Err("OutOfRangeError")
    ELSE IF year < -4712 \/ year > 5874897 THEN Err("OutOfRangeError")
    ELSE LET passed_years == year + 4800 - 1
             days_from_year == (365 * passed_years - I32_MAX - 1) + passed_years \div 4
                               - passed_years \div 100 + passed_years \div 400 + 366
             is_leap_year == (year % 400 = 0) \/ (year % 4 = 0 /\ year % 100 # 0)
             day_to_month == IF is_leap_year THEN DAY_TO_MONTH_366 ELSE DAY_TO_MONTH_365
             day_in_year == (day - 1) + day_to_month[month]
             cast == U32_as_i32(days_from_year + day_in_year)
             epoch == DAYS_IN_400_YEARS * 17
         IN  IF day_in_year >= day_to_month[month + 1] THEN Err("OutOfRangeError")
             ELSE IF cast < (epoch - I32_MAX) - 1
             THEN IF overflow_checks THEN Panic
                  ELSE LocalDate_from_days(((cast + I32_MAX) + 1 - epoch) + I32_MAX + 1)
             ELSE LocalDate_from_days(cast - epoch)

\* .expect("invalid date")
from_ymd(year, month, day, overflow_checks) ==
    LET r == try_from_ymd(year, month, day, overflow_checks)
    IN  IF r.tag = "Err" THEN Panic ELSE r

\* to_ymd: every step after the first division is on numbers below 2^31
to_ymd(self) ==
    LET MARCH_1 == 31 + 29
        MARCH_1_MINUS_4800_TO_POSTGRES_EPOCH == 17 * DAYS_IN_400_YEARS - MARCH_1
        days0 == I32_as_u32_wrapping_add(self.days, MARCH_1_MINUS_4800_TO_POSTGRES_EPOCH)
        years400 == U32_div(days0, DAYS_IN_400_YEARS)
        days1 == U32_rem(days0, DAYS_IN_400_YEARS)
        years100 == IF days1 \div DAYS_IN_100_YEARS = 4 THEN 3 ELSE days1 \div DAYS_IN_100_YEARS
        days2 == days1 - DAYS_IN_100_YEARS * years100
        years4 == days2 \div DAYS_IN_4_YEARS
        days3 == days2 % DAYS_IN_4_YEARS
        years1 == IF days3 \div DAYS_IN_1_YEAR = 4 THEN 3 ELSE days3 \div DAYS_IN_1_YEAR
        days == days3 - DAYS_IN_1_YEAR * years1
        years == years1 + years4 * 4 + years100 * 100 + years400 * 400
        kept == {i \in 1..12 : days >= DAY_TO_MONTH_MARCH[i]}
        month_entry == <<Cardinality(kept) - 1,
                         DAY_TO_MONTH_MARCH[CHOOSE i \in kept : \A j \in kept : j <= i]>>
        months == years * 12 + 2 + month_entry[1]
    IN  <<months \div 12 - 4800, ((months % 12) + 1) % 256, (days - month_entry[2] + 1) % 256>>

(***************************************************************************)
(* The dates handed to try_from_ymd: the years at both ends of the range   *)
(* and one past them, the years around 0 and 2000, years that are leap and *)
(* not, and the years where days_from_year + day_in_year passes 2^31;      *)
(* every month from 0 to 13 and the days around both ends of a month.      *)
(***************************************************************************)
Years == {-4713, -4712, -4711, -1, 0, 1, 1900, 1999, 2000, 2001, 2004, 2100, 9999,
          5874809, 5874810, 5874811, 5874896, 5874897, 5874898}
Months == 0..13
Days == {0, 1, 11, 12, 13, 28, 29, 30, 31, 32}

TryFromYmd ==
    /\ pc = "idle"
    /\ \E year \in Years : \E month \in Months : \E day \in Days :
         \E overflow_checks \in BOOLEAN :
            /\ val' = <<year, month, day>>
            /\ kind' = IF overflow_checks THEN "overflow-checks" ELSE "wrapping"
            /\ result' = try_from_ymd(year, month, day, overflow_checks)
    /\ pc' = "ymd"
    /\ UNCHANGED <<output, start, input, stack, last, codec, catalog, asked>>

ToYmd ==
    /\ pc = "ymd"
    /\ IsOk(result)
    /\ last' = [kind |-> "to_ymd", ymd |-> to_ymd(result.val), days |-> to_days(result.val)]
    /\ pc' = "ymd_back"
    /\ UNCHANGED <<output, kind, val, start, input, result, stack, codec, catalog, asked>>

DateReset ==
    /\ pc \in {"ymd", "ymd_back"}
    /\ output' \in Prefixes
    /\ pc' = "idle"
    /\ kind' = "none"
    /\ val' = <<>>
    /\ start' = 0
    /\ input' = None
    /\ result' = Ok(<<>>)
    /\ last' = NoLast
    /\ UNCHANGED <<stack, codec, catalog, asked>>

DateNext == TryFromYmd \/ ToYmd \/ DateReset

DateSpec == Init /\ [][DateNext]_vars

(***************************************************************************)
(* value_codec.rs, trait Codec: decode(&self, input) called from several   *)
(* threads on one shared codec.  A call in flight is [input, at, elements, *)
(* fields, result]: the Input it was handed, where it stands, and the      *)
(* locals of Object::decode (the DecodeTupleLike "elements" and the fields *)
(* collected so far).  decode_step is what the call does between two       *)
(* points where another thread may run: it returns the codec as the step   *)
(* leaves it (self is a shared reference and no codec has a Cell, a lock   *)
(* or an atomic) and the call's new locals.                                *)
(***************************************************************************)
NumThreads == 2

NewCall(inp) ==
    [input |-> inp, at |-> "start", elements |-> <<>>, fields |-> <<>>, result |-> Ok(<<>>)]

Returned(th, r) == [th EXCEPT !.at = "done", !.result = r]

\* a decode that keeps its iterator over the field codecs in the codec itself
decode_step_draining(self, th) ==
    IF self.kind # "Object"
    THEN [self |-> self, thread |-> Returned(th, Codec_decode(self, th.input))]
    ELSE IF th.at = "start"
    THEN LET elements == DecodeTupleLike_new_object(th.input, Len(self.codecs))
         IN  [self |-> self,
              thread |-> IF ~IsOk(elements) THEN Returned(th, elements)
                         ELSE [th EXCEPT !.at = "fields", !.elements = elements.val]]
    ELSE IF self.codecs = <<>>
    THEN [self |-> self,
          thread |-> Returned(th, Ok([kind |-> "Object", shape |-> self.shape,
                                      fields |-> th.fields]))]
    ELSE LET e == DecodeTupleLike_read(th.elements)
             v == Codec_decode(Head(self.codecs), e.val.input)
         IN  [self |-> [self EXCEPT !.codecs = Tail(self.codecs)],
              thread |-> IF ~IsOk(e) THEN Returned(th, e)
                         ELSE IF ~IsOk(v) THEN Returned(th, v)
                         ELSE [th EXCEPT !.elements = e.val.rest,
                                         !.fields = Append(th.fields, SomeV(v.val))]]

\* Object::decode step by step: new_object, then one field per step in the
\* order of self.codecs, then the Value; the decode of any other codec in
\* one step
decode_step(self, th) ==
    IF self.kind # "Object"
    THEN [self |-> self, thread |-> Returned(th, Codec_decode(self, th.input))]
    ELSE IF th.at = "start"
    THEN LET elements == DecodeTupleLike_new_object(th.input, Len(self.codecs))
         IN  [self |-> self,
              thread |-> IF ~IsOk(elements) THEN Returned(th, elements)
                         ELSE [th EXCEPT !.at = "fields", !.elements = elements.val]]
    ELSE IF Len(th.fields) = Len(self.codecs)
    THEN [self |-> self,
          thread |-> Returned(th, Ok([kind |-> "Object", shape |-> self.shape,
                                      fields |-> th.fields]))]
    ELSE LET e == DecodeTupleLike_read(th.elements)
             v == Codec_decode(self.codecs[Len(th.fields) + 1], e.val.input)
         IN  [self |-> self,
              thread |-> IF ~IsOk(e) THEN Returned(th, e)
                         ELSE IF ~IsOk(v) THEN Returned(th, v)
                         ELSE [th EXCEPT !.elements = e.val.rest,
                                         !.fields = Append(th.fields, SomeV(v.val))]]

\* the spans the threads decode: an object of two present elements, one
\* whose second element is absent, an i64, an enum member of one byte, and
\* no input at all
FullObjectSpan ==
    put_u32(2) \o put_u32(0) \o put_u32(8) \o put_i64(I64(1))
               \o put_u32(0) \o put_u32(8) \o put_i64(I64_MIN)
ThreadInputs ==
    {None, Some(ObjectSpan), Some(FullObjectSpan), Some(put_i64(I64(1))), Some(<<97>>)}

\* build_codec or build_input_codec from a position of Descriptors
BuildShared ==
    /\ pc = "idle"
    /\ stack = NoFrames
    /\ \E root \in {r \in Roots : r.some} : \E input_mode \in BOOLEAN :
         BuildStep(root, input_mode, Descriptors)

\* the built codec is handed to NumThreads threads, each with its own span
Share ==
    /\ pc = "built"
    /\ IsOk(result)
    /\ HasDecode(codec)
    /\ \E inputs \in [1..NumThreads -> ThreadInputs] :
         stack' = [t \in 1..NumThreads |-> NewCall(inputs[t])]
    /\ last' = [kind |-> "shared", codec |-> codec]
    /\ val' = <<>>
    /\ pc' = "threads"
    /\ UNCHANGED <<output, kind, start, input, result, codec, catalog, asked>>

\* thread t runs one step of its decode; val keeps the order in which the
\* threads ran their first steps
ThreadStep(t) ==
    /\ pc = "threads"
    /\ stack[t].at # "done"
    /\ LET r == decode_step(codec, stack[t])
       IN  /\ codec' = r.self
           /\ stack' = [stack EXCEPT ![t] = r.thread]
    /\ val' = IF Len(val) < 2 * NumThreads THEN Append(val, t) ELSE val
    /\ UNCHANGED <<output, pc, kind, start, input, result, last, catalog, asked>>

ConcurrentNext ==
    \/ BuildShared
    \/ Share
    \/ \E t \in 1..NumThreads : ThreadStep(t)
    \/ CompositeReset

ConcurrentSpec == Init /\ [][ConcurrentNext]_vars

(***************************************************************************)
(* Claims                                                                  *)
(***************************************************************************)

\* C1: for every value of the non-JSON, non-float scalar types, encode
\* succeeds and decode of exactly the bytes it appended returns that value.
C1Types == ScalarTypes \ {"Json", "Float32", "Float64"}
C1_ScalarRoundTrip ==
    kind \in C1Types =>
        /\ pc = "encoded" => result.tag = "Ok"
        /\ pc = "decoded" => IsOk(result) /\ result.val = val

\* int64::MIN went through encode and decode
C1_Witness ==
    /\ pc = "decoded"
    /\ kind = "Int64"
    /\ val = I64_MIN
    /\ input = Some(<<128, 0, 0, 0, 0, 0, 0, 0>>)
    /\ result = Ok(I64_MIN)

\* C2: encoding a Json value appends the format tag 1 and then the UTF-8
\* payload (the empty payload gives the single byte 0x01), and decoding
\* those bytes returns the value.
C2_JsonTagged ==
    kind = "Json" =>
        /\ pc \in {"encoded", "decoded"} => Appended = <<1>> \o as_bytes(val.json)
        /\ pc = "decoded" => IsOk(result) /\ result.val = val

\* the bytes of n >= 1 elements in array-like framing: the 20-byte header
\* and every payload behind its length
RECURSIVE Framed(_)
Framed(payloads) ==
    IF payloads = <<>> THEN <<>>
    ELSE put_u32(Len(Head(payloads))) \o Head(payloads) \o Framed(Tail(payloads))
ArrayLikeBytes(payloads) ==
    put_u32(1) \o put_u32(0) \o put_u32(0) \o put_u32(Len(payloads)) \o put_u32(1)
    \o Framed(payloads)
Zeros(n) == [i \in 1..n |-> 0]

\* C3: an array-like container finished after n >= 1 element writes has
\* appended one 20-byte header (1, 0, 0, n, 1) and the n length-prefixed
\* elements, nothing else; so has Set / Array encode of an n-item value.
C3_ArrayLikeLayout ==
    /\ (last.kind = "ArrayLike" /\ Len(last.elems) >= 1) =>
          last.bytes = ArrayLikeBytes([i \in 1..Len(last.elems) |-> last.elems[i].payload])
    /\ (pc = "cencoded" /\ codec.kind \in {"Set", "Array"} /\ Len(val.items) >= 1) =>
          /\ result.tag = "Ok"
          /\ Appended = ArrayLikeBytes([i \in 1..Len(val.items) |->
                            Codec_encode(codec.element, <<>>, val.items[i]).buf])

\* C4: an array-like container finished with no element written, and Set /
\* Array encode of an empty value, append exactly 12 zero bytes.
C4_EmptyArrayLike ==
    /\ (last.kind = "ArrayLike" /\ last.elems = <<>>) => last.bytes = Zeros(12)
    /\ (pc = "cencoded" /\ codec.kind \in {"Set", "Array"} /\ val.items = <<>>) =>
          /\ result.tag = "Ok"
          /\ Appended = Zeros(12)
C4_Witness ==
    /\ pc = "done"
    /\ last.kind = "ArrayLike"
    /\ last.elems = <<>>
    /\ last.position = 2
    /\ output = <<170, 85>> \o Zeros(12)

\* C5: after n writes (write or write_null) to a tuple-like container and
\* its finish, the 4 bytes where the container began hold n.
C5_TupleCountPatched ==
    last.kind \in {"TupleLike", "InputTuple"} =>
        SubSeq(last.bytes, 1, 4) = put_u32(Len(last.elems))

\* C6: a write whose closure appended k bytes returns with k in the 4 bytes
\* before the payload and the payload as the closure wrote it, for every k.
C6_LengthPrefix ==
    /\ last.kind # "panic"
    /\ last.kind = "write" =>
          /\ SubSeq(output, last.pos - 3, last.pos) = put_u32(Len(last.payload))
          /\ SubSeq(output, last.pos + 1, last.pos + Len(last.payload)) = last.payload

\* C7: the Object codec over {a, b} encodes the fields [Some(1), None] and
\* decodes the bytes it produced to the same Object, the second field None.
C7_Value ==
    [kind |-> "Object",
     shape |-> ObjectShape_from(<<ShapeElement("a", 0), ShapeElement("b", 0)>>),
     fields |-> <<SomeV([kind |-> "Int64", v |-> I64(1)]), NoneV>>]
C7_ObjectRoundTrip ==
    (codec.kind = "Object" /\ val = C7_Value) =>
        /\ pc = "cencoded" => result.tag = "Ok"
        /\ pc = "cdecoded" => result = Ok(val)

\* C8: a present span shorter than a fixed-width scalar's width fails with
\* Underflow, a longer one with ExtraData, and one of exactly the width
\* passes the size check.
Width(T) ==
    CASE T = "Bool" -> 1
      [] T = "Int16" -> 2
      [] T \in {"Int32", "Float32", "LocalDate"} -> 4
      [] T \in {"Int64", "Float64", "Datetime", "SystemTime", "LocalDatetime",
                "LocalTime"} -> 8
      [] T \in {"Uuid", "Duration"} -> 16
FixedWidthTypes ==
    {"Bool", "Int16", "Int32", "Int64", "Float32", "Float64", "Uuid", "Duration",
     "Datetime", "SystemTime", "LocalDatetime", "LocalTime", "LocalDate"}
C8_ExactSize ==
    (pc = "span" /\ kind \in FixedWidthTypes /\ input.some) =>
        LET n == Len(input.bytes)
            w == Width(kind)
        IN  /\ n < w => IsErr(result, "Underflow")
            /\ n > w => IsErr(result, "ExtraData")
            /\ n = w => ~IsErr(result, "Underflow") /\ ~IsErr(result, "ExtraData")

\* a 17-byte span was refused as a duration
C8_Witness ==
    /\ pc = "span"
    /\ kind = "Duration"
    /\ input.some
    /\ Len(input.bytes) = 17
    /\ IsErr(result, "ExtraData")

\* C9: decoding a scalar never aborts: it returns a value or a DecodeError;
\* a 4-byte local-date decodes to the LocalDate of its big-endian i32, and
\* an 8-byte datetime decodes into a SystemTime.
C9_DecodeNeverAborts ==
    pc = "span" =>
        /\ result.tag \in {"Ok", "Err"}
        /\ (kind = "LocalDate" /\ input.some /\ Len(input.bytes) = 4) =>
               IsOk(result) /\ result.val.days = get_i32(input.bytes)
        /\ (kind = "SystemTime" /\ input.some /\ Len(input.bytes) = 8) => IsOk(result)

\* C10: the codec build_codec returns for STD_JSON decodes a byte span to
\* what the static Json decode makes of it: the tag 1 required, and
\* Value::Json holding the payload behind the tag.
C10_Static(inp) ==
    LET r == Json_decode(inp)
    IN  IF IsOk(r) THEN Ok([kind |-> "Json", v |-> r.val.json]) ELSE r
C10_DynamicJsonAsStatic ==
    (pc = "cspan" /\ codec = build_codec([some |-> TRUE, pos |-> 1], Descriptors).val) =>
        result = C10_Static(input)

\* the positions a descriptor refers to, in the order the builder visits them
References(desc) ==
    CASE desc.kind \in {"Set", "Array"} -> <<desc.type_pos>>
      [] desc.kind = "Scalar" -> <<desc.base_type_pos>>
      [] desc.kind = "Tuple" -> desc.element_types
      [] desc.kind \in {"NamedTuple", "ObjectShape"} -> TypePositions(desc.elements)
      [] OTHER -> <<>>

\* every position some chain of references leads to from the positions S
RECURSIVE Reach(_, _)
Reach(descs, S) ==
    LET more == UNION {{References(descs[p + 1])[i] :
                            i \in 1..Len(References(descs[p + 1]))} :
                       p \in {q \in S : q < Len(descs)}}
    IN  IF more \subseteq S THEN S ELSE Reach(descs, S \cup more)

NoPosition == 0 - 1

\* the positions of a depth-first descent from pos, parents before children
\* and children left to right; NoPosition where the descent is deeper than
\* the catalog is long (a cycle of references)
RECURSIVE Descent(_, _, _)
RECURSIVE DescentAll(_, _, _)
Descent(descs, pos, depth) ==
    IF depth = 0 THEN <<NoPosition>>
    ELSE IF pos >= Len(descs) THEN <<pos>>
    ELSE <<pos>> \o DescentAll(descs, References(descs[pos + 1]), depth - 1)
DescentAll(descs, positions, depth) ==
    IF positions = <<>> THEN <<>>
    ELSE Descent(descs, Head(positions), depth)
            \o DescentAll(descs, Tail(positions), depth)

\* the descent goes no further than this position
Stops(descs, pos) ==
    \/ pos = NoPosition
    \/ pos >= Len(descs)
    \/ /\ descs[pos + 1].kind = "BaseScalar"
       /\ ~IsOk(scalar_codec(descs[pos + 1].id))
    \/ descs[pos + 1].kind = "TypeAnnotation"

\* the first position of the descent where it stops, NoPosition if nowhere
FirstStop(descs, order) ==
    LET stops == {i \in 1..Len(order) : Stops(descs, order[i])}
    IN  IF stops = {} THEN NoPosition
        ELSE order[CHOOSE i \in stops : \A j \in stops : i <= j]

UnexpectedTypePos(position) == Err([name |-> "UnexpectedTypePos", position |-> position])

\* C11: a build whose root, or whose descent through alias bases, set and
\* array elements, tuple and named-tuple elements and object fields, comes to
\* a position at or past the catalog's length fails with UnexpectedTypePos
\* of that position; a build that returns a codec referred to positions of
\* the catalog only, and UnexpectedTypePos names a position past the catalog
\* that the root leads to.
C11_OutOfBoundsIsAnError ==
    (pc = "built" /\ asked.some) =>
        LET reached == Reach(catalog, {asked.pos})
            stop == FirstStop(catalog, Descent(catalog, asked.pos, Len(catalog) + 1))
        IN  /\ asked.pos >= Len(catalog) => result = UnexpectedTypePos(asked.pos)
            /\ (stop # NoPosition /\ stop >= Len(catalog)) =>
                   result = UnexpectedTypePos(stop)
            /\ IsOk(result) => \A p \in reached : p < Len(catalog)
            /\ (result.tag = "Err" /\ result.err.name = "UnexpectedTypePos") =>
                   /\ result.err.position >= Len(catalog)
                   /\ result.err.position \in reached

\* a catalog of 14 descriptors whose position 12 leads, four levels down, to
\* the position 14
C11_Witness ==
    /\ pc = "built"
    /\ asked.some
    /\ asked.pos < Len(catalog)
    /\ \E p \in Reach(catalog, {asked.pos}) : p < Len(catalog) /\ catalog[p + 1].kind = "ObjectShape"
    /\ result = UnexpectedTypePos(Len(catalog))

\* a codec tree with every Tuple node made InputTuple and every NamedTuple
\* node made InputNamedTuple
RECURSIVE ToInput(_)
ToInput(c) ==
    CASE c.kind = "Scalar" -> [c EXCEPT !.inner = ToInput(c.inner)]
      [] c.kind \in {"Set", "Array"} -> [c EXCEPT !.element = ToInput(c.element)]
      [] c.kind = "Object" ->
            [c EXCEPT !.codecs = [i \in 1..Len(c.codecs) |-> ToInput(c.codecs[i])]]
      [] c.kind = "Tuple" ->
            [kind |-> "InputTuple",
             elements |-> [i \in 1..Len(c.elements) |-> ToInput(c.elements[i])]]
      [] c.kind = "NamedTuple" ->
            [kind |-> "InputNamedTuple", shape |-> c.shape,
             codecs |-> [i \in 1..Len(c.codecs) |-> ToInput(c.codecs[i])]]
      [] OTHER -> c

\* the kinds of the nodes of a codec tree
RECURSIVE NodeKinds(_)
NodeKinds(c) ==
    {c.kind} \cup
    CASE c.kind = "Scalar" -> NodeKinds(c.inner)
      [] c.kind \in {"Set", "Array"} -> NodeKinds(c.element)
      [] c.kind \in {"Object", "NamedTuple", "InputNamedTuple"} ->
            UNION {NodeKinds(c.codecs[i]) : i \in 1..Len(c.codecs)}
      [] c.kind \in {"Tuple", "InputTuple"} ->
            UNION {NodeKinds(c.elements[i]) : i \in 1..Len(c.elements)}
      [] OTHER -> {}

\* C12: on one catalog and root, build_codec and build_input_codec fail alike
\* or both return a codec, and then the input codec is the output codec with
\* Tuple nodes as InputTuple and NamedTuple nodes as InputNamedTuple at every
\* depth and no other difference; the output codec has no input node and the
\* input codec no output tuple node.
C12_ModesDifferAtTuplesOnly ==
    /\ (pc = "built" /\ kind = "build_codec") =>
          LET inp == build_input_codec(asked, catalog)
          IN  IF IsOk(result)
              THEN /\ IsOk(inp)
                   /\ inp.val = ToInput(codec)
                   /\ NodeKinds(codec) \cap {"InputTuple", "InputNamedTuple"} = {}
              ELSE inp = result
    /\ (pc = "built" /\ kind = "build_input_codec") =>
          LET out == build_codec(asked, catalog)
          IN  IF IsOk(result)
              THEN /\ IsOk(out)
                   /\ codec = ToInput(out.val)
                   /\ NodeKinds(codec) \cap {"Tuple", "NamedTuple"} = {}
              ELSE out = result

\* an input codec with a tuple inside a named tuple inside an array
C12_Witness ==
    /\ pc = "built"
    /\ kind = "build_input_codec"
    /\ IsOk(result)
    /\ codec.kind = "Array"
    /\ codec.element.kind = "InputNamedTuple"
    /\ codec.element.codecs[1].kind = "InputTuple"
    /\ codec.element.codecs[1].elements[1].kind = "InputTuple"

InvalidDescriptor == Err([name |-> "InvalidDescriptor"])

\* the results of checking every element of the live tuple against the
\* static element type at the same place
ElementChecks(T, descs, element_types) ==
    [i \in 1..Len(T.elements) |->
        Queryable_check_descriptor(T.elements[i], DescriptorContext_new(descs),
                                   element_types[i])]

\* C13: check_descriptor of a static tuple type of arity N returns
\* InvalidDescriptor for a position past the catalog, WrongType (expected
\* "tuple") for a descriptor that is no tuple, FieldNumber with expected = N
\* and unexpected = the live element count when the counts differ, and
\* otherwise the error of the first element, in declared order, whose check
\* fails, or Ok when none fails.
C13_TupleCheckDescriptor ==
    (pc = "checked" /\ kind.kind = "tuple") =>
        LET N == Len(kind.elements)
            p == asked.pos
        IN  IF p >= Len(catalog) THEN result = InvalidDescriptor
            ELSE IF catalog[p + 1].kind # "Tuple"
            THEN result = Err([name |-> "WrongType", unexpected |-> catalog[p + 1],
                               expected |-> "tuple"])
            ELSE IF Len(catalog[p + 1].element_types) # N
            THEN result = Err([name |-> "FieldNumber", expected |-> N,
                               unexpected |-> Len(catalog[p + 1].element_types)])
            ELSE LET rs == ElementChecks(kind, catalog, catalog[p + 1].element_types)
                     failing == {i \in 1..N : ~IsOk(rs[i])}
                 IN  IF failing = {} THEN result = Ok(<<>>)
                     ELSE result = rs[CHOOSE i \in failing : \A j \in failing : i <= j]

\* a static 3-tuple checked against a descriptor of 2 elements
C13_Witness ==
    /\ pc = "checked"
    /\ kind.kind = "tuple"
    /\ Len(kind.elements) = 3
    /\ asked.pos < Len(catalog)
    /\ catalog[asked.pos + 1].kind = "Tuple"
    /\ Len(catalog[asked.pos + 1].element_types) = 2
    /\ result = Err([name |-> "FieldNumber", expected |-> 3, unexpected |-> 2])

\* the position n alias steps from p: a step leads from a Scalar node inside
\* the catalog to its base position, and from any other position nowhere
RECURSIVE AliasChain(_, _, _)
AliasChain(descs, p, n) ==
    IF n = 0 THEN p
    ELSE LET q == AliasChain(descs, p, n - 1)
         IN  IF q # NoPosition /\ q < Len(descs) /\ descs[q + 1].kind = "Scalar"
             THEN descs[q + 1].base_type_pos
             ELSE NoPosition

\* the positions where the alias chain from p ends: none when it is a cycle
ChainEnds(descs, p) ==
    {q \in {AliasChain(descs, p, n) : n \in 0..Len(descs)} :
        /\ q # NoPosition
        /\ ~(q < Len(descs) /\ descs[q + 1].kind = "Scalar")}

\* C14: check_descriptor of a scalar codec returns Ok exactly when the chain
\* of scalar aliases from the position ends at a base scalar with the codec's
\* type id; WrongType (naming the node and the codec's type name) when it ends
\* at a base scalar of another id or at a node that is no scalar; and
\* InvalidDescriptor when it ends past the catalog.
C14_ScalarCheckDescriptor ==
    (pc = "checked" /\ kind.kind = "scalar") =>
        LET ends == ChainEnds(catalog, asked.pos)
            matches(q) == /\ q < Len(catalog)
                          /\ catalog[q + 1].kind = "BaseScalar"
                          /\ catalog[q + 1].id = ScalarTypeId(kind.name)
        IN  /\ IsOk(result) <=> \E q \in ends : matches(q)
            /\ \A q \in ends :
                 /\ q >= Len(catalog) => result = InvalidDescriptor
                 /\ (q < Len(catalog) /\ ~matches(q)) =>
                        result = Err([name |-> "WrongType",
                                      unexpected |-> catalog[q + 1],
                                      expected |-> ScalarTypeName(kind.name)])

\* Ok through two aliases
C14_Witness ==
    /\ pc = "checked"
    /\ kind.kind = "scalar"
    /\ asked.pos < Len(catalog)
    /\ catalog[asked.pos + 1].kind = "Scalar"
    /\ catalog[asked.pos + 1].base_type_pos < Len(catalog)
    /\ catalog[catalog[asked.pos + 1].base_type_pos + 1].kind = "Scalar"
    /\ IsOk(result)

\* C15: bool decode of one byte returns false for 0, true for 1 and the
\* error InvalidBool for each of the bytes 2..255.
C15_BoolDecode ==
    (pc = "span" /\ kind = "Bool" /\ input.some /\ Len(input.bytes) = 1) =>
        /\ input.bytes[1] = 0 => result = Ok(FALSE)
        /\ input.bytes[1] = 1 => result = Ok(TRUE)
        /\ input.bytes[1] \in 2..255 => IsErr(result, "InvalidBool")

\* the byte 2 was refused
C15_Witness ==
    /\ pc = "span"
    /\ kind = "Bool"
    /\ input = Some(<<2>>)
    /\ IsErr(result, "InvalidBool")

\* the four 16-bit limbs of 8 bytes read as an unsigned 64-bit number
Limbs(b) == [i \in 1..4 |-> b[2 * i - 1] * 256 + b[2 * i]]

\* C16: duration decode of 16 bytes returns the duration of the signed
\* microseconds of the first 8 bytes exactly when the days (bytes 9..12) and
\* the months (bytes 13..16) are both zero, and NonZeroReservedBytes when
\* either is not; duration encode appends the microseconds and 8 zero bytes.
C16_DurationReservedZero ==
    /\ (pc = "span" /\ kind = "Duration" /\ input.some /\ Len(input.bytes) = 16) =>
          IF \A i \in 9..16 : input.bytes[i] = 0
          THEN /\ IsOk(result)
               /\ AsU64(to_micros(result.val)) = Limbs(SubSeq(input.bytes, 1, 8))
          ELSE IsErr(result, "NonZeroReservedBytes")
    /\ (pc = "encoded" /\ kind = "Duration") =>
          /\ IsOk(result)
          /\ Len(output) = start + 16
          /\ \A i \in 9..16 : output[start + i] = 0
          /\ Limbs(SubSeq(output, start + 1, start + 8)) = AsU64(to_micros(val))

\* 5 microseconds with days = 1 and months = 0 were refused
C16_Witness ==
    /\ pc = "span"
    /\ kind = "Duration"
    /\ input = Some(<<0, 0, 0, 0, 0, 0, 0, 5, 0, 0, 0, 1, 0, 0, 0, 0>>)
    /\ IsErr(result, "NonZeroReservedBytes")

\* an unsigned 64-bit number in limbs is below 86_400_000_000,
\* which is 20 * 2^32 + 7639 * 2^16 + 24576
BelowOneDay(u) ==
    /\ u[1] = 0
    /\ \/ u[2] < 20
       \/ u[2] = 20 /\ u[3] < 7639
       \/ u[2] = 20 /\ u[3] = 7639 /\ u[4] < 24576

\* C17: local-time decode of 8 bytes returns the time of that many
\* microseconds exactly when the bytes, read as an unsigned 64-bit number, are
\* below 86_400_000_000, and InvalidDate otherwise; bytes with the sign bit
\* set are refused with InvalidDate.
C17_LocalTimeRange ==
    (pc = "span" /\ kind = "LocalTime" /\ input.some /\ Len(input.bytes) = 8) =>
        /\ IF BelowOneDay(Limbs(input.bytes))
           THEN IsOk(result) /\ to_micros(result.val) = Limbs(input.bytes)
           ELSE IsErr(result, "InvalidDate")
        /\ input.bytes[1] >= 128 => IsErr(result, "InvalidDate")

\* the i64 of -1 microseconds was refused
C17_Witness ==
    /\ pc = "span"
    /\ kind = "LocalTime"
    /\ input = Some(<<255, 255, 255, 255, 255, 255, 255, 255>>)
    /\ IsErr(result, "InvalidDate")

\* C18: decimal and bigint decode return a value exactly when the input has
\* at least 8 bytes, the sign field is 0 or 0x4000, the bytes behind the
\* 8-byte header are twice the digit count, and, for bigint, the scale field
\* is zero; fewer than 8 bytes are Underflow, another sign is BadSign, a
\* non-zero scale of a bigint is NonZeroReservedBytes, and fewer or more
\* digit bytes than declared are Underflow or ExtraData.
C18_NumericHeader ==
    (pc = "span" /\ kind \in {"Decimal", "BigInt"} /\ input.some) =>
        LET b == input.bytes
            ndigits == b[1] * 256 + b[2]
            sign == b[5] * 256 + b[6]
            scale == b[7] * 256 + b[8]
        IN  IF Len(b) < 8 THEN IsErr(result, "Underflow")
            ELSE IF sign \notin {0, 16384} THEN IsErr(result, "BadSign")
            ELSE IF kind = "BigInt" /\ scale # 0 THEN IsErr(result, "NonZeroReservedBytes")
            ELSE IF Len(b) - 8 < 2 * ndigits THEN IsErr(result, "Underflow")
            ELSE IF Len(b) - 8 > 2 * ndigits THEN IsErr(result, "ExtraData")
            ELSE /\ IsOk(result)
                 /\ result.val.negative = (sign = 16384)
                 /\ Len(result.val.digits) = ndigits

\* a bigint header with a scale of 1 and the two digits it declares
C18_Witness ==
    /\ pc = "span"
    /\ kind = "BigInt"
    /\ input = Some(<<0, 1, 0, 1, 64, 0, 0, 1, 0, 7>>)
    /\ IsErr(result, "NonZeroReservedBytes")

\* C19: Enum decode of a UTF-8 string outside the codec's members fails with
\* ExtraEnumValue; decode of a member returns the Value::Enum of that string;
\* encode of a Value::Enum outside the members fails with MissingEnumValue
\* and appends nothing, while a member is encoded as its string.
C19_EnumMembership ==
    /\ (pc = "cspan" /\ codec.kind = "Enum" /\ input.some) =>
          /\ (IsOk(Str_decode(input)) /\ input.bytes \notin codec.members) =>
                 IsErr(result, "ExtraEnumValue")
          /\ input.bytes \in codec.members =>
                 result = Ok([kind |-> "Enum", v |-> input.bytes])
    /\ (pc = "cencoded" /\ codec.kind = "Enum") =>
          IF val.v \in codec.members
          THEN IsOk(result) /\ SubSeq(output, start + 1, Len(output)) = val.v
          ELSE IsErr(result, "MissingEnumValue") /\ Len(output) = start
    /\ (pc = "cdecoded" /\ codec.kind = "Enum") => result = Ok(val)

\* the string "z" is no member of the enumeration of "a" and "{}"
C19_Witness ==
    /\ pc = "cspan"
    /\ codec.kind = "Enum"
    /\ codec.members = {<<97>>, <<123, 125>>}
    /\ input = Some(<<122>>)
    /\ IsErr(result, "ExtraEnumValue")

\* C20: with an absent root position build_codec and build_input_codec
\* return the Nothing codec whatever the catalog holds; the Nothing codec
\* decodes every input, present or absent, to Value::Nothing, encodes
\* Value::Nothing with success and without appending a byte, and fails to
\* encode a Value of any other kind.
C20_NothingCodec ==
    /\ (pc = "built" /\ ~asked.some) =>
          IsOk(result) /\ codec = [kind |-> "Nothing"]
    /\ (pc = "cspan" /\ codec.kind = "Nothing") => result = Ok([kind |-> "Nothing"])
    /\ (pc = "cencoded" /\ codec.kind = "Nothing") =>
          /\ val = [kind |-> "Nothing"]
          /\ IsOk(result)
          /\ output \in Prefixes
          /\ Len(output) = start
    /\ (pc = "cother" /\ codec.kind = "Nothing") =>
          /\ val.kind # "Nothing"
          /\ result.tag = "Err"
          /\ output \in Prefixes
          /\ Len(output) = start

\* the Nothing codec, built in input mode from a catalog of 14 descriptors,
\* refused an int64
C20_Witness ==
    /\ pc = "cother"
    /\ ~asked.some
    /\ kind = "build_input_codec"
    /\ catalog = Nested
    /\ codec = [kind |-> "Nothing"]
    /\ val.kind = "Int64"
    /\ result.tag = "Err"

\* the leaf codecs of the ids 0x100..0x110, in the order of the ids
LeafKinds ==
    <<"Uuid", "Str", "Bytes", "Int16", "Int32", "Int64", "Float32", "Float64",
      "Decimal", "Bool", "Datetime", "LocalDatetime", "LocalDate", "LocalTime",
      "Duration", "Json", "BigInt">>

\* C21: the build of a base-scalar node returns a codec exactly when the
\* node's type id is one of the 17 ids 0x100..0x110, and then the scalar leaf
\* of that id; for every other id it fails with UndefinedBaseScalar of the id.
C21_BaseScalarTable ==
    (/\ pc = "built"
     /\ asked.some
     /\ asked.pos < Len(catalog)
     /\ catalog[asked.pos + 1].kind = "BaseScalar") =>
        LET id == catalog[asked.pos + 1].id
        IN  IF id \in 256..272
            THEN IsOk(result) /\ codec = [kind |-> LeafKinds[id - 255]]
            ELSE result = Err([name |-> "UndefinedBaseScalar", uuid |-> id])

\* the id 0x111, one past the table
C21_Witness ==
    /\ pc = "built"
    /\ asked = [some |-> TRUE, pos |-> 0]
    /\ catalog = <<[kind |-> "BaseScalar", id |-> 273]>>
    /\ result = Err([name |-> "UndefinedBaseScalar", uuid |-> 273])

\* C22: get(position) on a descriptor context returns the descriptor stored
\* at that index when the position is below the catalog's length and
\* InvalidDescriptor otherwise, and the catalog after the call is the catalog
\* before it.
C22_GetIsPureLookup ==
    [][pc' = "got" =>
          /\ catalog' = catalog
          /\ IF asked'.pos < Len(catalog)
             THEN result' = Ok(catalog[asked'.pos + 1])
             ELSE result' = Err([name |-> "InvalidDescriptor"])]_vars

\* a second get on the same context, past the end of a catalog of 14
C22_Witness ==
    /\ pc = "got"
    /\ catalog = Nested
    /\ asked.pos = Len(catalog)
    /\ result = Err([name |-> "InvalidDescriptor"])

\* the bytes EncodeTupleLike (k = "TupleLike") or EncodeInputTuple makes on
\* an empty output of closures that append the payloads of elems
RECURSIVE WriteAll(_, _, _)
WriteAll(k, buf, elems) ==
    IF elems = <<>> THEN EncOk(buf)
    ELSE LET payload == Head(elems).payload
             r == IF k = "TupleLike"
                  THEN EncodeTupleLike_write(buf, LAMBDA b : EncOk(b \o payload))
                  ELSE EncodeInputTuple_write(buf, LAMBDA b : EncOk(b \o payload))
         IN  IF r.tag # "Ok" THEN r ELSE WriteAll(k, r.buf, Tail(elems))
TupleBytes(k, elems) ==
    LET t == new_tuple_like(<<>>)
        w == WriteAll(k, t.buf, elems)
    IN  IF w.tag # "Ok" THEN w ELSE finish_tuple_like(t.inner, w.buf)

\* output-mode element bytes without the first 4 bytes of each element; an
\* element is 4 reserved bytes, 4 bytes of length and its payload
RECURSIVE StripReserved(_, _)
StripReserved(b, elems) ==
    IF elems = <<>> THEN b
    ELSE LET n == 8 + Len(Head(elems).payload)
         IN  SubSeq(b, 5, n) \o StripReserved(SubSeq(b, n + 1, Len(b)), Tail(elems))

\* the first 4 bytes of each output-mode element are zero
RECURSIVE ReservedZero(_, _)
ReservedZero(b, elems) ==
    \/ elems = <<>>
    \/ LET n == 8 + Len(Head(elems).payload)
       IN  /\ SubSeq(b, 1, 4) = <<0, 0, 0, 0>>
           /\ ReservedZero(SubSeq(b, n + 1, Len(b)), Tail(elems))

\* the length of the output-mode bytes of elems behind the count
RECURSIVE OutputLen(_)
OutputLen(elems) ==
    IF elems = <<>> THEN 0 ELSE 8 + Len(Head(elems).payload) + OutputLen(Tail(elems))

NoNull(elems) == \A i \in 1..Len(elems) : ~elems[i].null

\* C23: the bytes of an EncodeInputTuple are the bytes an EncodeTupleLike
\* makes of the same elements with the first 4 bytes of every element
\* removed, and in the bytes of an EncodeTupleLike those 4 bytes of every
\* element are zero and stand immediately before the element's length field.
C23_InputTupleIsTupleWithoutReserved ==
    /\ (pc \in {"open", "done"} /\ last.kind = "InputTuple") =>
          LET out == TupleBytes("TupleLike", last.elems)
          IN  /\ out.tag = "Ok"
              /\ Len(out.buf) = 4 + OutputLen(last.elems)
              /\ last.bytes = SubSeq(out.buf, 1, 4)
                                \o StripReserved(SubSeq(out.buf, 5, Len(out.buf)), last.elems)
    /\ (pc \in {"open", "done"} /\ last.kind = "TupleLike") =>
          /\ Len(last.bytes) = 4 + OutputLen(last.elems)
          /\ ReservedZero(SubSeq(last.bytes, 5, Len(last.bytes)), last.elems)
          /\ NoNull(last.elems) =>
                LET inp == TupleBytes("InputTuple", last.elems)
                IN  /\ inp.tag = "Ok"
                    /\ inp.buf = SubSeq(last.bytes, 1, 4)
                                   \o StripReserved(SubSeq(last.bytes, 5, Len(last.bytes)),
                                                    last.elems)

\* an input tuple of two elements, the second a nested container
C23_Witness ==
    /\ pc \in {"open", "done"}
    /\ last.kind = "InputTuple"
    /\ Len(last.elems) = 2
    /\ Len(last.elems[1].payload) = 8
    /\ Len(last.elems[2].payload) > 8

\* the bytes the container or element on top of the stack reserved for the
\* rewrite at its finish: the 4 bytes in front of an element's payload, the
\* count of a tuple-like container, the upper bound of an array-like header
Placeholder(i) ==
    /\ stack # NoFrames
    /\ \/ Top.kind = "Element" /\ i \in (Top.pos - 3)..Top.pos
       \/ Top.kind \in {"TupleLike", "InputTuple"} /\ i \in (Top.position + 1)..(Top.position + 4)
       \/ Top.kind = "ArrayLike" /\ i \in (Top.position + 13)..(Top.position + 16)

\* C24: no step of an encode (container open, element write, finish, at any
\* depth) shortens the buffer or changes a byte already in it other than the
\* 4 placeholder bytes of the container or element being finished: bytes
\* written before a container was opened and payload bytes stay as they were.
C24_OnlyPlaceholdersRewritten ==
    [][(pc \in {"idle", "open"} /\ pc' \in {"open", "done"}) =>
          /\ Len(output') >= Len(output)
          /\ \A i \in 1..Len(output) : output'[i] # output[i] => Placeholder(i)]_vars

\* what the build of each position a node refers to returns on its own, in
\* the mode of the build
ReferenceBuilds(descs, desc, mode) ==
    [i \in 1..Len(References(desc)) |->
        IF mode = "build_input_codec"
        THEN build_input_codec([some |-> TRUE, pos |-> References(desc)[i]], descs)
        ELSE build_codec([some |-> TRUE, pos |-> References(desc)[i]], descs)]

\* C25: the build of a tuple, named-tuple or object node returns what the
\* first of its references, in declared order, that fails to build returns,
\* whatever the later references would do, and then no codec; it returns a
\* codec only when every reference builds.
C25_FirstErrorWins ==
    (/\ pc = "built"
     /\ asked.some
     /\ asked.pos < Len(catalog)
     /\ catalog[asked.pos + 1].kind \in {"Tuple", "NamedTuple", "ObjectShape"}) =>
        LET rs == ReferenceBuilds(catalog, catalog[asked.pos + 1], kind)
            failing == {i \in 1..Len(rs) : ~IsOk(rs[i])}
        IN  IF failing = {} THEN IsOk(result)
            ELSE /\ result = rs[CHOOSE i \in failing : \A j \in failing : i <= j]
                 /\ codec = NoCodec

\* a tuple whose first element is out of bounds and whose second is a type
\* annotation, which the builder would panic on
C25_Witness ==
    /\ pc = "built"
    /\ asked = [some |-> TRUE, pos |-> 0]
    /\ catalog = <<[kind |-> "Tuple", element_types |-> <<2, 1>>], [kind |-> "TypeAnnotation"]>>
    /\ result = UnexpectedTypePos(2)

\* C26: the encode of a codec handed a Value of another variant than the
\* codec's (for an alias, than its inner codec's) returns the invalid-value
\* error and leaves the output buffer exactly as it was before the call.
C26_OtherKindIsInvalidValue ==
    [][pc' = "cother" =>
          /\ val'.kind # ValueKind(codec)
          /\ result' = Err("InvalidValue")
          /\ output' = output]_vars

\* a Set codec handed an Array, and a tuple codec handed an Object, with
\* bytes already in the buffer
C26_Witness ==
    /\ pc = "cother"
    /\ output = <<170, 85>>
    /\ result = Err("InvalidValue")
    /\ \/ codec.kind = "Set" /\ val.kind = "Array"
       \/ codec.kind = "InputTuple" /\ val.kind = "Object"

ShapeMismatches == {Err("TupleShapeMismatch"), Err("ObjectShapeMismatch")}

\* C27: the encode of a Tuple of another length than the codec's element
\* count, or of an Object / NamedTuple whose shape holds other elements than
\* the codec's or whose field count is not the codec's, returns a shape
\* mismatch error and leaves the output as it was; a value of the codec's
\* length whose shape is another allocation holding equal elements passes
\* the shape checks.
C27_ShapeMismatch ==
    [][pc' = "cshaped" =>
          LET value == val'
              tuple == codec.kind \in {"Tuple", "InputTuple"}
              other_shape == ~tuple /\ value.shape.elements # codec.shape.elements
              other_count == IF tuple THEN Len(codec.elements) # Len(value.items)
                             ELSE Len(codec.codecs) # Len(value.fields)
          IN  /\ value.kind = ValueKind(codec)
              /\ IF other_shape \/ other_count
                 THEN /\ output' = output
                      /\ result' = IF codec.kind = "Object" \/ (~tuple /\ ~other_shape)
                                   THEN Err("ObjectShapeMismatch")
                                   ELSE Err("TupleShapeMismatch")
                 ELSE /\ result' \notin ShapeMismatches
                      /\ (tuple \/ codec.kind \in {"NamedTuple", "InputNamedTuple"}) =>
                             (result'.tag = "Ok" <=>
                                 (IF tuple THEN value
                                  ELSE [value EXCEPT !.shape = codec.shape])
                                     \in ValuesOf(codec, FALSE))]_vars

\* a named tuple whose shape is another allocation with the codec's elements
\* is encoded
C27_Witness ==
    /\ pc = "cshaped"
    /\ codec.kind = "NamedTuple"
    /\ val.shape.arc # codec.shape.arc
    /\ val.shape.elements = codec.shape.elements
    /\ result.tag = "Ok"
    /\ Len(output) > start

\* a chain of references leads from root back to a position it passed
CycleReachable(descs, root) ==
    \E p \in Reach(descs, {root}) :
        /\ p < Len(descs)
        /\ p \in Reach(descs, {References(descs[p + 1])[i] :
                                   i \in 1..Len(References(descs[p + 1]))})

\* the depth-first descent from pos in declared order, "path" the positions
\* above pos: "loop" when it comes to a position of its own path, "stop" when
\* it comes first to a position where the descent stops, "done" otherwise
RECURSIVE Walk(_, _, _)
RECURSIVE WalkAll(_, _, _)
Walk(descs, pos, path) ==
    IF pos \in path THEN "loop"
    ELSE IF Stops(descs, pos) THEN "stop"
    ELSE WalkAll(descs, References(descs[pos + 1]), path \cup {pos})
WalkAll(descs, positions, path) ==
    IF positions = <<>> THEN "done"
    ELSE LET w == Walk(descs, Head(positions), path)
         IN  IF w # "done" THEN w ELSE WalkAll(descs, Tail(positions), path)

\* C28 as stated: a build from a root position returns if and only if no
\* cycle of references is reachable from the root.
C28_TerminatesIffAcyclic ==
    (pc = "built" /\ asked.some) =>
        (result # Diverges <=> ~CycleReachable(catalog, asked.pos))

\* C28: a build from a root position returns whenever no cycle of references
\* is reachable from the root; it recurses without bound exactly when its
\* depth-first descent in declared order comes back to a position of its own
\* path before it comes to a reference that fails, and then a cycle is
\* reachable from the root.
C28_DivergesOnTheDescentsCycle ==
    (pc = "built" /\ asked.some) =>
        /\ ~CycleReachable(catalog, asked.pos) => result # Diverges
        /\ result = Diverges <=> Walk(catalog, asked.pos, {}) = "loop"

\* an alias whose base is its own position
C28_Witness ==
    /\ pc = "built"
    /\ asked.some
    /\ asked.pos < Len(catalog)
    /\ catalog[asked.pos + 1] = [kind |-> "Scalar", base_type_pos |-> asked.pos]
    /\ result = Diverges

\* the length of a month, from the calendar's rule
DaysInMonth(year, month) ==
    IF month = 2
    THEN IF year % 4 = 0 /\ (year % 100 # 0 \/ year % 400 = 0) THEN 29 ELSE 28
    ELSE IF month \in {4, 6, 9, 11} THEN 30 ELSE 31

ValidYmd(ymd) ==
    /\ ymd[1] >= -4712 /\ ymd[1] <= 5874897
    /\ ymd[2] >= 1 /\ ymd[2] <= 12
    /\ ymd[3] >= 1 /\ ymd[3] <= DaysInMonth(ymd[1], ymd[2])

\* C30: try_from_ymd returns Ok(d) for a year of -4712..=5874897, a month
\* of 1..=12 and a day of the month's length in that year, and then
\* d.to_ymd() is the triple and 2000-01-01 is day 0; for every other triple
\* it returns Err(OutOfRangeError); no arithmetic overflows, so it never
\* panics.
C30_YmdRoundTrip ==
    /\ pc \in {"ymd", "ymd_back"} =>
          IF ValidYmd(val) THEN IsOk(result) ELSE result = Err("OutOfRangeError")
    /\ pc = "ymd_back" =>
          /\ last.ymd = val
          /\ val = <<2000, 1, 1>> => last.days = 0

====
